---- MODULE Spec2Model ----
(***************************************************************************)
(* Identity and verification subsystem of koko-pic-api                     *)
(* (src/src/domains/user): the users and verification_tokens tables, the   *)
(* UserServiceImpl operations running as concurrent requests against one   *)
(* PostgreSQL pool, and the sessions they issue.                           *)
(*                                                                         *)
(* A request is a process; one action is one await point of its handler    *)
(* together with the synchronous code that follows it up to the next       *)
(* await.  A transaction keeps its writes private until commit (READ       *)
(* COMMITTED); dropping it without commit rolls it back.                   *)
(*                                                                         *)
(* Time is counted in hours.  Spec lets the requests of two workers        *)
(* overlap within one hour of the clock; SpecClock lets one worker serve    *)
(* requests one after the other while the clock advances.                   *)
(***************************************************************************)
EXTENDS Integers, Sequences, FiniteSets, TLC

(* ------------------------------ bounds -------------------------------- *)

MaxUsers == 2
MaxTokens == 2
MaxTime == 48

Procs == {"p1", "p2"}


(* --------------------------- program constants ------------------------ *)

\* Duration::hours(24) of the session expiry
SessionHours == 24
\* lifetime of a verification token: expires_at = now + 24h
TokenHours == 24
\* #[validate(length(min = 8))] on CreateUserRequest.password
MinPasswordLen == 8
\* #[validate(length(min = 1))] on CreateUserRequest.display_name
MinDisplayNameLen == 1

\* seconds of an hour: Claims.exp is .timestamp(), in seconds
SecondsPerHour == 3600
\* Validation::default(): leeway, in seconds, of the exp validation
Leeway == 60

\* the clock of the model advances by one token lifetime at a time
ClockSteps == {TokenHours}

(* ------------------------------ inputs -------------------------------- *)

Letters == {"a", "b"}
Digits == {"1", "2"}

PwA == <<"a", "a", "a", "a", "1", "1", "1", "1">>
PwB == <<"b", "b", "b", "b", "2", "2", "2", "2">>
PwShort == <<"a", "1">>
PwNoLetter == <<"1", "1", "1", "1", "2", "2", "2", "2">>
PwNoDigit == <<"a", "a", "a", "a", "b", "b", "b", "b">>

EmailA == "a@example.com"
EmailB == "b@example.com"
EmailBad == "not-an-email"

\* payloads a client may post to create_user
CreateRequests ==
  { [email |-> EmailA, display_name |-> "A", password |-> PwA],
    [email |-> EmailB, display_name |-> "B", password |-> PwB],
    [email |-> EmailBad, display_name |-> "A", password |-> PwA],
    [email |-> EmailB, display_name |-> "", password |-> PwA],
    [email |-> EmailB, display_name |-> "B", password |-> PwShort],
    [email |-> EmailB, display_name |-> "B", password |-> PwNoLetter],
    [email |-> EmailB, display_name |-> "B", password |-> PwNoDigit] }

\* payloads a client may post to login
LoginRequests ==
  [email : {EmailA, EmailB}, password : {PwA, PwB}]

(* ------------------------------- state -------------------------------- *)

VARIABLES
  users,        \* committed rows of table users: id -> row
  tokens,       \* committed rows of table verification_tokens: id -> row
  userSeq,      \* next value of the users id sequence
  tokenSeq,     \* next value of the verification_tokens id sequence
  now,          \* the clock (Utc::now / NOW()), in hours
  req,          \* per worker: the request it is serving
  usedWrites,   \* history: committed updates of used_at, per token id
  pictures,     \* committed rows of table pictures: id -> row
  pictureSeq,   \* next value of the pictures id sequence
  objects,      \* the keys of the objects in the bucket
  requests,     \* committed rows of table requests: id -> row
  requestSeq,   \* next value of the requests id sequence
  sessions      \* the session tokens clients hold, handed to them in responses

vars ==
  << users, tokens, userSeq, tokenSeq, now, req, usedWrites, pictures,
     pictureSeq, objects, requests, requestSeq, sessions >>

store == << users, tokens, userSeq, tokenSeq, usedWrites >>

\* the tables and the bucket of the picture and request domains
catalog == << pictures, pictureSeq, objects, requests, requestSeq >>

(* ------------------------------ records ------------------------------- *)

\* Option::None of a timestamp
Null == -1

NoRows == [i \in {} |-> i]

NoUser ==
  [id |-> 0, email |-> "", display_name |-> "", password |-> <<>>,
   email_verified |-> FALSE]

NoToken ==
  [id |-> 0, user_id |-> 0, token |-> <<>>, token_type |-> "",
   expires_at |-> 0, used_at |-> Null]

NoClaims == [sub |-> "", exp |-> 0, user_id |-> 0]

\* no open transaction
NoTx ==
  [active |-> FALSE, start |-> 0, users |-> NoRows, tokens |-> NoRows,
   locks |-> {}]

\* what a session was issued for (kept with the result that carries it)
NoIssue == [op |-> "none", email_verified |-> FALSE, password_ok |-> FALSE]

\* the notifier call a request made: send_simple_text_email(to, subject, body(token))
NoMail == [to |-> "", token |-> <<>>, outcome |-> "none"]

\* Option<String>: a string is the sequence of its characters
None == [some |-> FALSE, value |-> <<>>]

Some(v) == [some |-> TRUE, value |-> v]

NoResult ==
  [kind |-> "none", msg |-> "", user |-> NoUser, claims |-> NoClaims,
   issued |-> NoIssue, mail |-> NoMail, key |-> None, requests |-> <<>>]

\* Ok(value) without a session
Ok(u) == [NoResult EXCEPT !.kind = "ok", !.user = u]

Err(kind, msg) == [NoResult EXCEPT !.kind = kind, !.msg = msg]

\* a session token as a client presents it: its form (three base64 parts or
\* not), the secret its signature was made with, and its claims
NoJwt == [form |-> "none", key |-> "", claims |-> NoClaims]

\* no Authorization header
NoHeader == [scheme |-> "none", jwt |-> NoJwt]

\* struct S3Storage, without its client
NoStorage == [bucket |-> <<>>, endpoint |-> None, public_endpoint |-> None]

NoArg ==
  [email |-> "", display_name |-> "", password |-> <<>>, token |-> <<>>,
   user_id |-> 0, authorization |-> NoHeader, at |-> 0,
   storage |-> NoStorage, key |-> <<>>, url |-> <<>>,
   lat |-> None, lng |-> None, picture_id |-> 0, file_name |-> <<>>,
   body |-> "none"]

\* AppError { status_code, message }; no response yet
NoResponse == [status_code |-> 0, message |-> ""]

\* no row of pictures
NoPicture == [id |-> 0, user_id |-> 0, image_url |-> <<>>, created_at |-> 0]

\* a worker with no request
Idle ==
  [pc |-> "idle", op |-> "none", arg |-> NoArg, user |-> NoUser,
   token |-> NoToken, tx |-> NoTx, result |-> NoResult, response |-> NoResponse,
   picture |-> NoPicture]

(* ---------------------------- pure functions -------------------------- *)

\* SHA-256 hex digest: deterministic and collision free on the inputs
hash_password(password) == <<"sha256">> \o password

\* the digit rule left out
validate_password_LetterOnly(password) ==
  IF ~(\E i \in 1..Len(password) : password[i] \in Letters) THEN "missing_letter"
  ELSE "ok"

\* regex [a-zA-Z] then regex \d
validate_password(password) ==
  IF ~(\E i \in 1..Len(password) : password[i] \in Letters) THEN "missing_letter"
  ELSE IF ~(\E i \in 1..Len(password) : password[i] \in Digits) THEN "missing_digit"
  ELSE "ok"

\* validator's email rule, on the inputs of the model
is_email(email) == email \in {EmailA, EmailB}

\* CreateUserRequest::validate
validate(r) ==
  /\ is_email(r.email)
  /\ Len(r.display_name) >= MinDisplayNameLen
  /\ Len(r.password) >= MinPasswordLen
  /\ validate_password(r.password) = "ok"

\* Uuid::new_v4().to_string(): one fresh string per generated id
uuid(n) == <<"uuid", n>>

\* the token strings a client may present: the issued ones and a forged one
TokenStrings == { uuid(n) : n \in 0..MaxTokens }

\* .timestamp(): the seconds of an instant of the clock, which counts hours
timestamp(t) == t * SecondsPerHour

\* what signed a token: the JWT_SECRET of the process or another secret
JwtSecrets == {"JWT_SECRET", "another secret"}

\* encode_jwt(claims): header.payload.signature under JWT_SECRET, exp in seconds
encode_jwt(claims) ==
  [form |-> "jwt", key |-> "JWT_SECRET",
   claims |-> [claims EXCEPT !.exp = timestamp(@)]]

\* decode_jwt(token) at the second `at`: decode::<Claims>(token, key,
\* &Validation::default()) splits the token, verifies the HS256 signature
\* under JWT_SECRET and refuses exp < now - leeway
decode_jwt(token, at) ==
  IF token.form # "jwt" THEN [kind |-> "InvalidToken", claims |-> NoClaims]
  ELSE IF token.key # "JWT_SECRET"
  THEN [kind |-> "InvalidSignature", claims |-> NoClaims]
  ELSE IF token.claims.exp < at - Leeway
  THEN [kind |-> "ExpiredSignature", claims |-> NoClaims]
  ELSE [kind |-> "ok", claims |-> token.claims]

\* Claims { sub, exp, user_id } with exp = Utc::now() + 24h
session_claims(user, t) ==
  [sub |-> user.email, exp |-> t + SessionHours, user_id |-> user.id]

\* Ok(LoginResponse / VerifyEmailResponse): a session credential leaves the
\* service.  `issued` records the operation, and what the committed row of the
\* account (row) and the request (password, if it gave one) were at that moment.
OkSession(operation, user, t, row, password_given, password) ==
  [NoResult EXCEPT
     !.kind = "ok",
     !.user = user,
     !.claims = session_claims(user, t),
     !.issued = [op |-> operation,
                 email_verified |-> row.email_verified,
                 password_ok |-> password_given /\ hash_password(password) = row.password]]

\* sqlx::Error -> UserServiceError::InternalServerError("Database error: ..")
DatabaseError == Err("InternalServerError", "Database error")

(* ------------------------------ the store ----------------------------- *)

\* rows with the writes w laid over them
Overlay(w, rows) ==
  [i \in DOMAIN w \cup DOMAIN rows |-> IF i \in DOMAIN w THEN w[i] ELSE rows[i]]

\* SELECT ... FROM users WHERE email = $1 on the pool
find_by_email(email) ==
  IF \E i \in DOMAIN users : users[i].email = email
  THEN users[CHOOSE i \in DOMAIN users : users[i].email = email]
  ELSE NoUser

\* SELECT ... FROM users WHERE id = $1 on the pool
find_by_id(id) == IF id \in DOMAIN users THEN users[id] ELSE NoUser

\* SELECT ... FROM verification_tokens WHERE token = $1
find_by_token(token) ==
  IF \E i \in DOMAIN tokens : tokens[i].token = token
  THEN tokens[CHOOSE i \in DOMAIN tokens : tokens[i].token = token]
  ELSE NoToken

\* the row lock of a token is held by an open transaction other than p's
LockedByOther(p, id) ==
  \E q \in Procs \ {p} : req[q].tx.active /\ id \in req[q].tx.locks

\* an open transaction other than p's has an uncommitted users row with this email
EmailPendingElsewhere(p, email) ==
  \E q \in Procs \ {p} :
    /\ req[q].tx.active
    /\ \E i \in DOMAIN req[q].tx.users : req[q].tx.users[i].email = email

\* an open transaction other than p's has written the users row id
UserRowLockedByOther(p, id) ==
  \E q \in Procs \ {p} : req[q].tx.active /\ id \in DOMAIN req[q].tx.users

\* users.email without its unique index
UniqueViolation_Unindexed(email) == FALSE

\* the insert of an account is rejected for an email that users already has:
\* users.email is unique
UniqueViolation(email) == find_by_email(email) # NoUser

\* the insert of a token is rejected for a user_id that users does not have:
\* never, the token store's create takes any account id and has no failure
\* for an absent account
ForeignKeyViolation(user_id) == FALSE

\* a store call returns its rows or an error
StoreOutcomes == {"rows", "error"}

\* encode_jwt(claims): signing may fail
EncodeOutcomes == {"token", "error"}

\* email_service.send_simple_text_email(..) delivers or fails
SendOutcomes == {"sent", "failed"}

\* no picture, no object and no request yet
EmptyCatalog ==
  /\ pictures = NoRows
  /\ pictureSeq = 1
  /\ objects = {}
  /\ requests = NoRows
  /\ requestSeq = 1

Init ==
  /\ users = NoRows
  /\ tokens = NoRows
  /\ userSeq = 1
  /\ tokenSeq = 1
  /\ now = 0
  /\ req = [p \in Procs |-> Idle]
  /\ usedWrites = [i \in 1..MaxTokens |-> 0]
  /\ EmptyCatalog
  /\ sessions = {}

(* ------------------------------ requests ------------------------------ *)

\* p's request moves on: r is its new record
Step(p, r) == req' = [req EXCEPT ![p] = r]

\* the status codes of the responses
StatusCodes ==
  [OK |-> 200, BAD_REQUEST |-> 400, UNAUTHORIZED |-> 401, FORBIDDEN |-> 403,
   NOT_FOUND |-> 404,
   CONFLICT |-> 409, GONE |-> 410, INTERNAL_SERVER_ERROR |-> 500]

\* an expired token answered like a used one
map_user_service_error_ExpiredConflict(e) ==
  [status_code |->
     CASE e.kind = "ValidationError" -> StatusCodes.BAD_REQUEST
       [] e.kind = "InternalServerError" -> StatusCodes.INTERNAL_SERVER_ERROR
       [] e.kind = "Unauthorized" -> StatusCodes.UNAUTHORIZED
       [] e.kind = "InvalidToken" -> StatusCodes.BAD_REQUEST
       [] e.kind = "TokenExpired" -> StatusCodes.CONFLICT
       [] e.kind = "TokenAlreadyUsed" -> StatusCodes.CONFLICT
       [] e.kind = "UserNotFound" -> StatusCodes.NOT_FOUND,
   message |-> e.msg]

\* map_user_service_error(e): the AppError of a service error, with its message
map_user_service_error(e) ==
  [status_code |->
     CASE e.kind = "ValidationError" -> StatusCodes.BAD_REQUEST
       [] e.kind = "InternalServerError" -> StatusCodes.INTERNAL_SERVER_ERROR
       [] e.kind = "Unauthorized" -> StatusCodes.UNAUTHORIZED
       [] e.kind = "InvalidToken" -> StatusCodes.BAD_REQUEST
       [] e.kind = "TokenExpired" -> StatusCodes.GONE
       [] e.kind = "TokenAlreadyUsed" -> StatusCodes.CONFLICT
       [] e.kind = "UserNotFound" -> StatusCodes.NOT_FOUND,
   message |-> e.msg]

\* .map(JsonResponse).map_err(map_user_service_error) of the handlers
into_response(r) ==
  IF r.kind = "ok" THEN [status_code |-> StatusCodes.OK, message |-> ""]
  ELSE map_user_service_error(r)

\* the handler has returned r: its locals are gone, and its transaction, if
\* still open, was dropped
Returned(operation, a, r) ==
  [Idle EXCEPT !.pc = "done", !.op = operation, !.arg = a, !.result = r,
               !.response = into_response(r)]

\* p's handler returns r
Finish(p, r) == Step(p, Returned(req[p].op, req[p].arg, r))

\* pool.begin()
Begin == [NoTx EXCEPT !.active = TRUE, !.start = now]

\* requests that will still draw from the users id sequence
UserDemand == Cardinality({q \in Procs : req[q].pc = "c_user"})

\* requests that may still draw from the verification_tokens id sequence
TokenDemand ==
  Cardinality({q \in Procs : req[q].pc \in {"c_user", "c_token", "e_find", "s_token"}})

\* the row VerificationToken::create* inserts
new_token(user_id, token_type) ==
  [id |-> tokenSeq, user_id |-> user_id, token |-> uuid(tokenSeq),
   token_type |-> token_type, expires_at |-> now + TokenHours, used_at |-> Null]

\* the updates of used_at a commit of p's transaction makes
CommitUsedWrites(p) ==
  [i \in DOMAIN usedWrites |->
     IF i \in DOMAIN req[p].tx.tokens /\ i \in DOMAIN tokens
     THEN usedWrites[i] + 1 ELSE usedWrites[i]]

\* tx.commit(): the writes of the transaction become visible together
Commit(p) ==
  /\ users' = Overlay(req[p].tx.users, users)
  /\ tokens' = Overlay(req[p].tx.tokens, tokens)
  /\ usedWrites' = CommitUsedWrites(p)

(* ----------------------------- create_user ---------------------------- *)

\* create_user: req.validate()?, then pool.begin()
CreateUser(p, r) ==
  /\ req[p].pc = "idle"
  /\ LET a == [NoArg EXCEPT !.email = r.email, !.display_name = r.display_name,
                            !.password = r.password]
     IN IF ~validate(r)
        THEN Step(p, Returned("create_user", a, Err("ValidationError", "Validation failed")))
        ELSE /\ userSeq + UserDemand <= MaxUsers
             /\ tokenSeq + TokenDemand <= MaxTokens
             /\ Step(p, [Idle EXCEPT !.pc = "c_user", !.op = "create_user", !.arg = a,
                                     !.tx = Begin])
  /\ UNCHANGED << store, now, catalog, sessions >>

\* the account inserted on the pool instead of the transaction: the row is
\* committed by the insert itself
CreateUserInsertUser_OnPool(p) ==
  /\ req[p].pc = "c_user"
  /\ ~EmailPendingElsewhere(p, req[p].arg.email)
  /\ userSeq' = userSeq + 1
  /\ IF UniqueViolation(req[p].arg.email)
     THEN /\ Finish(p, DatabaseError)
          /\ users' = users
     ELSE LET row == [id |-> userSeq, email |-> req[p].arg.email,
                      display_name |-> req[p].arg.display_name,
                      password |-> hash_password(req[p].arg.password),
                      email_verified |-> FALSE]
          IN /\ users' = Overlay((userSeq :> row), users)
             /\ Step(p, [req[p] EXCEPT !.pc = "c_token", !.user = row])
  /\ UNCHANGED << tokens, tokenSeq, usedWrites, now, catalog, sessions >>

\* User::create_with_executor(tx, email, display_name, password):
\* INSERT INTO users (.., email_verified) VALUES (.., FALSE) RETURNING ..
CreateUserInsertUser(p) ==
  /\ req[p].pc = "c_user"
  /\ ~EmailPendingElsewhere(p, req[p].arg.email)
  /\ userSeq' = userSeq + 1
  /\ IF UniqueViolation(req[p].arg.email)
     THEN \* `?` returns the error and drops the transaction
          Finish(p, DatabaseError)
     ELSE LET row == [id |-> userSeq, email |-> req[p].arg.email,
                      display_name |-> req[p].arg.display_name,
                      password |-> hash_password(req[p].arg.password),
                      email_verified |-> FALSE]
          IN Step(p, [req[p] EXCEPT !.pc = "c_token", !.user = row,
                                    !.tx.users = Overlay((userSeq :> row), @)])
  /\ UNCHANGED << users, tokens, tokenSeq, usedWrites, now, catalog, sessions >>

\* VerificationToken::create_with_executor(tx, user.id, "email_verification")
CreateUserInsertToken(p) ==
  /\ req[p].pc = "c_token"
  /\ LET row == new_token(req[p].user.id, "email_verification")
     IN Step(p, [req[p] EXCEPT !.pc = "c_commit", !.token = row,
                               !.tx.tokens = Overlay((tokenSeq :> row), @)])
  /\ tokenSeq' = tokenSeq + 1
  /\ UNCHANGED << users, tokens, userSeq, usedWrites, now, catalog, sessions >>

\* tx.commit().await?
CreateUserCommit(p) ==
  /\ req[p].pc = "c_commit"
  /\ Commit(p)
  /\ Step(p, [req[p] EXCEPT !.pc = "mail", !.tx = NoTx])
  /\ UNCHANGED << userSeq, tokenSeq, now, catalog, sessions >>

\* the error of the send returned with `?` instead of logged
SendVerificationEmailToUser_Propagated(p) ==
  /\ req[p].pc = "mail"
  /\ \E sent \in SendOutcomes :
       LET r == IF sent = "failed"
                THEN Err("InternalServerError", "Failed to send email")
                ELSE IF req[p].op = "create_user" THEN Ok(req[p].user) ELSE Ok(NoUser)
       IN Finish(p, [r EXCEPT !.mail = [to |-> req[p].user.email,
                                        token |-> req[p].token.token,
                                        outcome |-> sent]])
  /\ UNCHANGED << store, now, catalog, sessions >>

\* send_verification_email_to_user(&user, &token): the outcome of the send is
\* logged and Ok(()) is returned either way; then the operation returns
SendVerificationEmailToUser(p) ==
  /\ req[p].pc = "mail"
  /\ \E sent \in SendOutcomes :
       LET r == IF req[p].op = "create_user" THEN Ok(req[p].user) ELSE Ok(NoUser)
       IN Finish(p, [r EXCEPT !.mail = [to |-> req[p].user.email,
                                        token |-> req[p].token.token,
                                        outcome |-> sent]])
  /\ UNCHANGED << store, now, catalog, sessions >>

(* -------------------------------- login ------------------------------- *)

\* the verification check left out
NotVerified_Unchecked(user) == FALSE

\* if !user.email_verified
NotVerified(user) == ~user.email_verified

\* the password comparison left out
WrongPassword_Unchecked(user, password) == FALSE

\* if user.password != hashed_input_password
WrongPassword(user, password) == user.password # hash_password(password)

\* a wrong password answered in words of its own
login_WrongPasswordTold(user, password, enc) ==
  IF user = NoUser THEN Err("Unauthorized", "Invalid credentials")
  ELSE IF NotVerified(user) THEN Err("Unauthorized", "Email not verified")
  ELSE IF WrongPassword(user, password) THEN Err("Unauthorized", "Wrong password")
  ELSE IF enc = "error" THEN Err("InternalServerError", "JWT encoding failed")
  ELSE OkSession("login", user, now, find_by_id(user.id), TRUE, password)

\* what login returns once find_by_email has returned user
login(user, password, enc) ==
  IF user = NoUser THEN Err("Unauthorized", "Invalid credentials")
  ELSE IF NotVerified(user) THEN Err("Unauthorized", "Email not verified")
  ELSE IF WrongPassword(user, password) THEN Err("Unauthorized", "Invalid credentials")
  ELSE IF enc = "error" THEN Err("InternalServerError", "JWT encoding failed")
  ELSE OkSession("login", user, now, find_by_id(user.id), TRUE, password)

\* a login that marks the account it finds verified
Login_Verifying(p, r) ==
  /\ req[p].pc = "idle"
  /\ LET a == [NoArg EXCEPT !.email = r.email, !.password = r.password]
         user == find_by_email(r.email)
     IN /\ \E db \in StoreOutcomes, enc \in EncodeOutcomes :
             Step(p, Returned("login", a,
                              IF db = "error" THEN DatabaseError
                              ELSE login(user, r.password, enc)))
        /\ users' = IF user = NoUser THEN users
                    ELSE [users EXCEPT ![user.id].email_verified = TRUE]
  /\ UNCHANGED << tokens, userSeq, tokenSeq, usedWrites, now, catalog, sessions >>

\* login: user_repository.find_by_email(&req.email).await? is its one await
Login(p, r) ==
  /\ req[p].pc = "idle"
  /\ LET a == [NoArg EXCEPT !.email = r.email, !.password = r.password]
     IN \E db \in StoreOutcomes, enc \in EncodeOutcomes :
          Step(p, Returned("login", a,
                           IF db = "error" THEN DatabaseError
                           ELSE login(find_by_email(r.email), r.password, enc)))
  /\ UNCHANGED << store, now, catalog, sessions >>

(* ----------------------------- verify_email --------------------------- *)

\* verify_email: pool.begin()
VerifyEmail(p, token) ==
  /\ req[p].pc = "idle"
  /\ Step(p, [Idle EXCEPT !.pc = "v_find", !.op = "verify_email",
                          !.arg = [NoArg EXCEPT !.token = token], !.tx = Begin])
  /\ UNCHANGED << store, now, catalog, sessions >>

\* a plain SELECT: the lookup takes no row lock and waits for nobody
RowLockFree_Unlocked(p, id) == TRUE

\* SELECT .. WHERE token = $1 FOR UPDATE waits while another transaction holds
\* the row lock
RowLockFree(p, id) == ~LockedByOther(p, id)

\* the expiry check left out
Expired_Unchecked(token, t) == FALSE

\* if verification_token.expires_at < Utc::now()
Expired(token, t) == token.expires_at < t

\* the used check left out
AlreadyUsed_Unchecked(token) == FALSE

\* if verification_token.used_at.is_some()
AlreadyUsed(token) == token.used_at # Null

\* VerificationToken::find_by_token_for_update(tx, &token).await?, then the
\* expiry check and the used check
VerifyEmailFind(p) ==
  /\ req[p].pc = "v_find"
  /\ LET token == find_by_token(req[p].arg.token)
     IN IF token = NoToken
        THEN Finish(p, Err("InvalidToken", "Invalid verification token"))
        ELSE /\ RowLockFree(p, token.id)
             /\ IF Expired(token, now)
                THEN Finish(p, Err("TokenExpired", "Verification token has expired"))
                ELSE IF AlreadyUsed(token)
                THEN Finish(p, Err("TokenAlreadyUsed",
                                   "Verification token has already been used"))
                ELSE Step(p, [req[p] EXCEPT !.pc = "v_user", !.token = token,
                                            !.tx.locks = @ \cup {token.id}])
  /\ UNCHANGED << store, now, catalog, sessions >>

\* SET email_verified = NOT email_verified instead of TRUE
VerifyEmailMarkUser_Toggle(p) ==
  /\ req[p].pc = "v_user"
  /\ LET id == req[p].token.user_id
     IN IF id \notin DOMAIN users
        THEN Finish(p, DatabaseError)
        ELSE /\ ~UserRowLockedByOther(p, id)
             /\ LET row == [users[id] EXCEPT !.email_verified = ~@]
                IN Step(p, [req[p] EXCEPT !.pc = "v_token", !.user = row,
                                          !.tx.users = Overlay((id :> row), @)])
  /\ UNCHANGED << store, now, catalog, sessions >>

\* User::verify_email_with_executor(tx, verification_token.user_id).await?:
\* UPDATE users SET email_verified = TRUE WHERE id = $1 RETURNING ..
VerifyEmailMarkUser(p) ==
  /\ req[p].pc = "v_user"
  /\ LET id == req[p].token.user_id
     IN IF id \notin DOMAIN users
        THEN \* fetch_one finds no row: `?` drops the transaction
             Finish(p, DatabaseError)
        ELSE /\ ~UserRowLockedByOther(p, id)
             /\ LET row == [users[id] EXCEPT !.email_verified = TRUE]
                IN Step(p, [req[p] EXCEPT !.pc = "v_token", !.user = row,
                                          !.tx.users = Overlay((id :> row), @)])
  /\ UNCHANGED << store, now, catalog, sessions >>

\* the token marked used on the pool instead of the transaction: the update
\* is committed by itself
VerifyEmailMarkToken_OnPool(p) ==
  /\ req[p].pc = "v_token"
  /\ LET id == req[p].token.id
         row == [tokens[id] EXCEPT !.used_at = now]
     IN /\ tokens' = Overlay((id :> row), tokens)
        /\ usedWrites' = [usedWrites EXCEPT ![id] = @ + 1]
        /\ Step(p, [req[p] EXCEPT !.pc = "v_commit"])
  /\ UNCHANGED << users, userSeq, tokenSeq, now, catalog, sessions >>

\* every token of the owner marked used: WHERE user_id = $1 instead of id = $1
VerifyEmailMarkToken_OfOwner(p) ==
  /\ req[p].pc = "v_token"
  /\ LET owned == { i \in DOMAIN tokens : tokens[i].user_id = req[p].token.user_id }
         rows == [i \in owned |-> [tokens[i] EXCEPT !.used_at = req[p].tx.start]]
     IN Step(p, [req[p] EXCEPT !.pc = "v_commit",
                               !.tx.tokens = Overlay(rows, @)])
  /\ UNCHANGED << store, now, catalog, sessions >>

\* VerificationToken::mark_as_used_with_executor(tx, verification_token.id).await?:
\* UPDATE verification_tokens SET used_at = NOW() WHERE id = $1
VerifyEmailMarkToken(p) ==
  /\ req[p].pc = "v_token"
  /\ LET id == req[p].token.id
         row == [tokens[id] EXCEPT !.used_at = req[p].tx.start]
     IN Step(p, [req[p] EXCEPT !.pc = "v_commit",
                               !.tx.tokens = Overlay((id :> row), @)])
  /\ UNCHANGED << store, now, catalog, sessions >>

\* the session encoded before the commit: a failure to encode drops the
\* transaction
VerifyEmailCommit_EncodeFirst(p) ==
  /\ req[p].pc = "v_commit"
  /\ \E enc \in EncodeOutcomes :
       IF enc = "error"
       THEN /\ Finish(p, Err("InternalServerError", "JWT encoding failed"))
            /\ UNCHANGED << users, tokens, usedWrites >>
       ELSE /\ Commit(p)
            /\ Finish(p, OkSession("verify_email", req[p].user, now,
                                   Overlay(req[p].tx.users, users)[req[p].user.id],
                                   FALSE, <<>>))
  /\ UNCHANGED << userSeq, tokenSeq, now, catalog, sessions >>

\* tx.commit().await?, then the session is encoded and returned
VerifyEmailCommit(p) ==
  /\ req[p].pc = "v_commit"
  /\ Commit(p)
  /\ \E enc \in EncodeOutcomes :
       IF enc = "error"
       THEN Finish(p, Err("InternalServerError", "JWT encoding failed"))
       ELSE Finish(p, OkSession("verify_email", req[p].user, now,
                                Overlay(req[p].tx.users, users)[req[p].user.id],
                                FALSE, <<>>))
  /\ UNCHANGED << userSeq, tokenSeq, now, catalog, sessions >>

(* ------------------------ send_verification_email --------------------- *)

SendVerificationEmail(p, user_id) ==
  /\ req[p].pc = "idle"
  /\ tokenSeq + TokenDemand <= MaxTokens
  /\ Step(p, [Idle EXCEPT !.pc = "s_token", !.op = "send_verification_email",
                          !.arg = [NoArg EXCEPT !.user_id = user_id]])
  /\ UNCHANGED << store, now, catalog, sessions >>

\* verification_token_repository.create_verification_token(user_id,
\* "email_verification").await? on the pool: the insert commits by itself
SendCreateToken(p) ==
  /\ req[p].pc = "s_token"
  /\ tokenSeq' = tokenSeq + 1
  /\ IF ForeignKeyViolation(req[p].arg.user_id)
     THEN /\ Finish(p, DatabaseError)
          /\ tokens' = tokens
     ELSE LET row == new_token(req[p].arg.user_id, "email_verification")
          IN /\ tokens' = Overlay((tokenSeq :> row), tokens)
             /\ Step(p, [req[p] EXCEPT !.pc = "s_find", !.token = row])
  /\ UNCHANGED << users, userSeq, usedWrites, now, catalog, sessions >>

\* the account looked up and not required to be there
SendFindUser_Unchecked(p) ==
  /\ req[p].pc = "s_find"
  /\ Step(p, [req[p] EXCEPT !.pc = "mail", !.user = find_by_id(req[p].arg.user_id)])
  /\ UNCHANGED << store, now, catalog, sessions >>

\* user_repository.find_by_id(user_id).await?.ok_or_else(UserNotFound)?
SendFindUser(p) ==
  /\ req[p].pc = "s_find"
  /\ LET user == find_by_id(req[p].arg.user_id)
     IN IF user = NoUser
        THEN Finish(p, Err("UserNotFound", "User not found"))
        ELSE Step(p, [req[p] EXCEPT !.pc = "mail", !.user = user])
  /\ UNCHANGED << store, now, catalog, sessions >>

(* -------------------- send_verification_email_by_email ---------------- *)

SendVerificationEmailByEmail(p, email) ==
  /\ req[p].pc = "idle"
  /\ tokenSeq + TokenDemand <= MaxTokens
  /\ Step(p, [Idle EXCEPT !.pc = "e_find", !.op = "send_verification_email_by_email",
                          !.arg = [NoArg EXCEPT !.email = email]])
  /\ UNCHANGED << store, now, catalog, sessions >>

\* a token sent to every account found, verified or not
ByEmailFindUser_Unchecked(p) ==
  /\ req[p].pc = "e_find"
  /\ LET user == find_by_email(req[p].arg.email)
     IN IF user # NoUser
        THEN Step(p, [req[p] EXCEPT !.pc = "s_token", !.arg.user_id = user.id])
        ELSE Finish(p, Ok(NoUser))
  /\ UNCHANGED << store, now, catalog, sessions >>

\* if let Some(user) = find_by_email(&email).await? { if !user.email_verified {
\*   self.send_verification_email(user.id).await? } }
ByEmailFindUser(p) ==
  /\ req[p].pc = "e_find"
  /\ LET user == find_by_email(req[p].arg.email)
     IN IF user # NoUser /\ ~user.email_verified
        THEN Step(p, [req[p] EXCEPT !.pc = "s_token", !.arg.user_id = user.id])
        ELSE Finish(p, Ok(NoUser))
  /\ UNCHANGED << store, now, catalog, sessions >>

(* ----------------------------- get_user_by_id ------------------------- *)

\* what get_user_by_id returns once find_by_id has returned user
get_user_by_id(user) ==
  IF user = NoUser THEN Err("UserNotFound", "User not found") ELSE Ok(user)

\* get_user_by_id: user_repository.find_by_id(user_id).await? is its one await
GetUserById(p, user_id) ==
  /\ req[p].pc = "idle"
  /\ \E db \in StoreOutcomes :
       Step(p, Returned("get_user_by_id", [NoArg EXCEPT !.user_id = user_id],
                        IF db = "error" THEN DatabaseError
                        ELSE get_user_by_id(find_by_id(user_id))))
  /\ UNCHANGED << store, now, catalog, sessions >>

(* ------------------------------ environment --------------------------- *)

\* the await points at which a store call is pending
StorePcs == {"c_user", "c_token", "c_commit", "v_find", "v_user", "v_token", "v_commit",
             "s_token", "s_find", "e_find"}

\* a store call fails (connection lost, statement error): `?` returns
\* InternalServerError and the open transaction is dropped uncommitted
StoreFailure(p) ==
  /\ req[p].pc \in StorePcs
  /\ Finish(p, DatabaseError)
  /\ UNCHANGED << store, now, catalog, sessions >>

\* the request is cancelled at an await point: its future is dropped, and with
\* it the open transaction
Cancel(p) ==
  /\ req[p].pc \notin {"idle", "done"}
  /\ Step(p, Idle)
  /\ UNCHANGED << store, now, catalog, sessions >>

\* the response has been handed to the client; the worker takes the next request
Return(p) ==
  /\ req[p].pc = "done"
  /\ Step(p, Idle)
  /\ UNCHANGED << store, now, catalog, sessions >>

\* time passes: a whole token lifetime at a time, which is far longer than a
\* request takes, so no request is in flight across it
Tick ==
  /\ \A p \in Procs : req[p].pc \in {"idle", "done"}
  /\ \E d \in ClockSteps : /\ now + d <= MaxTime
                           /\ now' = now + d
  /\ UNCHANGED << store, req, catalog, sessions >>

\* the requests the workers in P may start or carry one step further
Serve(P) ==
  \/ \E p \in P : \E r \in CreateRequests : CreateUser(p, r)
  \/ \E p \in P : CreateUserInsertUser(p)
  \/ \E p \in P : CreateUserInsertToken(p)
  \/ \E p \in P : CreateUserCommit(p)
  \/ \E p \in P : SendVerificationEmailToUser(p)
  \/ \E p \in P : \E r \in LoginRequests : Login(p, r)
  \/ \E p \in P : \E token \in TokenStrings : VerifyEmail(p, token)
  \/ \E p \in P : VerifyEmailFind(p)
  \/ \E p \in P : VerifyEmailMarkUser(p)
  \/ \E p \in P : VerifyEmailMarkToken(p)
  \/ \E p \in P : VerifyEmailCommit(p)
  \/ \E p \in P : \E id \in 1..MaxUsers : SendVerificationEmail(p, id)
  \/ \E p \in P : SendCreateToken(p)
  \/ \E p \in P : SendFindUser(p)
  \/ \E p \in P : \E email \in {EmailA, EmailB} : SendVerificationEmailByEmail(p, email)
  \/ \E p \in P : ByEmailFindUser(p)
  \/ \E p \in P : \E id \in 1..MaxUsers : GetUserById(p, id)
  \/ \E p \in P : StoreFailure(p)
  \/ \E p \in P : Cancel(p)
  \/ \E p \in P : Return(p)

\* requests overlap on all workers, within one hour of the clock
Next == Serve(Procs)

Spec == Init /\ [][Next]_vars

\* one worker serves requests one after the other while time passes
NextClock == Serve({"p1"}) \/ Tick

SpecClock == Init /\ [][NextClock]_vars

(* ------------------------- the error boundary ------------------------- *)

\* enum UserServiceError
ErrorKinds ==
  {"Unauthorized", "ValidationError", "InternalServerError", "InvalidToken",
   "TokenExpired", "TokenAlreadyUsed", "UserNotFound"}

\* the messages the service puts in its errors
ErrorMessages ==
  {"Validation failed", "Invalid credentials", "Email not verified",
   "JWT encoding failed", "Invalid verification token",
   "Verification token has expired", "Verification token has already been used",
   "User not found", "Database error"}

\* a service call has returned Err(e) to its handler
Failed(e) == [Idle EXCEPT !.pc = "error", !.op = "handler", !.result = e]

\* every worker's handler holds an error of any kind with any message
InitErrors ==
  /\ users = NoRows
  /\ tokens = NoRows
  /\ userSeq = 1
  /\ tokenSeq = 1
  /\ usedWrites = [i \in 1..MaxTokens |-> 0]
  /\ EmptyCatalog
  /\ sessions = {}
  /\ now = 0
  /\ req \in [Procs -> { Failed(Err(k, m)) : k \in ErrorKinds, m \in ErrorMessages }]

\* .map_err(map_user_service_error): the handler answers with the AppError
MapErr(p) ==
  /\ req[p].pc = "error"
  /\ Finish(p, req[p].result)
  /\ UNCHANGED << store, now, catalog, sessions >>

NextErrors == \E p \in Procs : MapErr(p)

\* the handlers map the errors of the service
SpecErrors == InitErrors /\ [][NextErrors]_vars

(* -------------------------- the session codec ------------------------ *)

\* the hours at which the presented sessions were issued
IssueHours == {0, 1}

\* session tokens a client may present: issued by login for account 1 at one
\* of IssueHours, as issued, signed with another secret, or not a JWT at all
PresentedJwts ==
  { [encode_jwt(session_claims([NoUser EXCEPT !.id = 1, !.email = EmailA], t))
       EXCEPT !.form = f, !.key = k] :
      t \in IssueHours, f \in {"jwt", "garbage"}, k \in JwtSecrets }

\* the seconds at which a token is decoded: around the exp of the sessions
DecodeInstants ==
  { timestamp(t + SessionHours) + d : t \in IssueHours, d \in {-1, 0, 1, Leeway, Leeway + 1} }

\* a request carrying token is about to be authenticated at second at
Decoding(token, at) ==
  [Idle EXCEPT !.pc = "decode", !.op = "decode_jwt",
               !.arg.authorization = [scheme |-> "Bearer", jwt |-> token],
               !.arg.at = at]

InitJwt ==
  /\ users = NoRows
  /\ tokens = NoRows
  /\ userSeq = 1
  /\ tokenSeq = 1
  /\ usedWrites = [i \in 1..MaxTokens |-> 0]
  /\ EmptyCatalog
  /\ sessions = {}
  /\ now = 0
  /\ req \in [Procs -> { Decoding(token, at) : token \in PresentedJwts,
                                               at \in DecodeInstants }]

\* crate::utils::jwt::decode_jwt(token)
DecodeJwt(p) ==
  /\ req[p].pc = "decode"
  /\ LET d == decode_jwt(req[p].arg.authorization.jwt, req[p].arg.at)
     IN req' = [req EXCEPT ![p].pc = "done",
                           ![p].result = [NoResult EXCEPT !.kind = d.kind,
                                                          !.claims = d.claims]]
  /\ UNCHANGED << store, now, catalog, sessions >>

NextJwt == \E p \in Procs : DecodeJwt(p)

\* session tokens are decoded at instants around their expiry
SpecJwt == InitJwt /\ [][NextJwt]_vars

(* --------------------------- the object URLs -------------------------- *)

Slash == <<"/">>

\* "https://"
Https == <<"h", "t", "t", "p", "s", ":", "/", "/">>

\* ".s3.amazonaws.com"
AwsHost ==
  <<".", "s", "3", ".", "a", "m", "a", "z", "o", "n", "a", "w", "s", ".",
    "c", "o", "m">>

\* str::starts_with
starts_with(s, prefix) ==
  /\ Len(prefix) <= Len(s)
  /\ SubSeq(s, 1, Len(prefix)) = prefix

\* self.public_endpoint.as_ref().or(self.endpoint.as_ref())
endpoint_for_url(storage) ==
  IF storage.public_endpoint.some THEN storage.public_endpoint
  ELSE storage.endpoint

\* the URL upload_file returns for the object it stored under key
url_of(storage, key) ==
  LET endpoint == endpoint_for_url(storage)
  IN IF endpoint.some
     THEN endpoint.value \o Slash \o storage.bucket \o Slash \o key
     ELSE Https \o storage.bucket \o AwsHost \o Slash \o key

\* the prefix extract_key_from_url looks for
prefix_of(storage) ==
  LET endpoint == endpoint_for_url(storage)
  IN IF endpoint.some
     THEN endpoint.value \o Slash \o storage.bucket \o Slash
     ELSE Https \o storage.bucket \o AwsHost \o Slash

\* the internal endpoint looked for even when a public one is configured
extract_key_from_url_EndpointFirst(storage, url) ==
  LET prefix == IF storage.endpoint.some
                THEN storage.endpoint.value \o Slash \o storage.bucket \o Slash
                ELSE prefix_of(storage)
  IN IF starts_with(url, prefix)
     THEN Some(SubSeq(url, Len(prefix) + 1, Len(url)))
     ELSE None

\* S3Storage::extract_key_from_url(url)
extract_key_from_url(storage, url) ==
  LET prefix == prefix_of(storage)
  IN IF starts_with(url, prefix)
     THEN Some(SubSeq(url, Len(prefix) + 1, Len(url)))
     ELSE None

\* the longest object key
MaxKeyLen == 2

KeyChars == {"k", "/"}

\* object keys: every string of KeyChars up to MaxKeyLen characters
Keys == UNION { [1..n -> KeyChars] : n \in 0..MaxKeyLen }

\* storage configurations: S3_ENDPOINT unset, a host, or a host with a path
\* that ends like a bucket; S3_PUBLIC_ENDPOINT unset or set; two buckets
Storages ==
  [bucket : {<<"d">>, <<"v">>},
   endpoint : {None, Some(<<"e">>), Some(<<"e", "/", "d">>)},
   public_endpoint : {None, Some(<<"p">>)}]

\* URLs found in rows of pictures: built by any configuration for a short key
StoredUrls ==
  { url_of(storage, key) : storage \in Storages,
                           key \in { k \in Keys : Len(k) <= 1 } }

\* a worker is about to upload an object under key
Uploading(storage, key) ==
  [Idle EXCEPT !.pc = "upload", !.op = "upload_file", !.arg.storage = storage,
               !.arg.key = key]

\* a worker is about to extract the key of url
Extracting(storage, url) ==
  [Idle EXCEPT !.pc = "extract", !.op = "extract_key_from_url",
               !.arg.storage = storage, !.arg.url = url]

\* one storage configuration for the process; every worker holds a key to
\* upload or a URL to take the key from
InitStorage ==
  /\ users = NoRows
  /\ tokens = NoRows
  /\ userSeq = 1
  /\ tokenSeq = 1
  /\ usedWrites = [i \in 1..MaxTokens |-> 0]
  /\ EmptyCatalog
  /\ sessions = {}
  /\ now = 0
  /\ \E storage \in Storages :
       req \in [Procs -> { Uploading(storage, key) : key \in Keys }
                           \cup { Extracting(storage, url) : url \in StoredUrls }]

\* put_object answers or fails
UploadOutcomes == {"stored", "error"}

\* S3Storage::upload_file(key, data, content_type): the URL of the stored
\* object is handed on to extract_key_from_url
UploadFile(p) ==
  /\ req[p].pc = "upload"
  /\ \E outcome \in UploadOutcomes :
       IF outcome = "stored"
       THEN req' = [req EXCEPT ![p].pc = "extract",
                               ![p].arg.url = url_of(req[p].arg.storage, req[p].arg.key)]
       ELSE req' = [req EXCEPT ![p].pc = "done",
                               ![p].result = Err("Error", "Failed to upload file to S3")]
  /\ UNCHANGED << store, now, catalog, sessions >>

\* S3Storage::extract_key_from_url(url)
ExtractKeyFromUrl(p) ==
  /\ req[p].pc = "extract"
  /\ req' = [req EXCEPT ![p].pc = "done",
                        ![p].result = [NoResult EXCEPT !.kind = "ok",
                                         !.key = extract_key_from_url(req[p].arg.storage,
                                                                      req[p].arg.url)]]
  /\ UNCHANGED << store, now, catalog, sessions >>

NextStorage ==
  \/ \E p \in Procs : UploadFile(p)
  \/ \E p \in Procs : ExtractKeyFromUrl(p)

\* keys are turned into URLs and URLs into keys under one configuration
SpecStorage == InitStorage /\ [][NextStorage]_vars

(* ----------------------------- the requests --------------------------- *)

\* the most rows of table requests
MaxRequests == 3

\* 6371000 * radians(1): the metres of one degree of a great circle
MetresPerDegree == 111195

\* the positions lie on one meridian, where the angle between two
\* of them is the difference of their latitudes (in whole degrees)
Meridian == 135

Latitudes == {8, 9, 35}

\* the latitudes x, in whole degrees, at which the float8 expression
\* cos(radians(x)) * cos(radians(x)) * cos(0) + sin(radians(x)) * sin(radians(x))
\* rounds to 1.0000000000000002
RoundsAboveOne == {-82, -12, -8, 8, 12, 82}

Abs(x) == IF x < 0 THEN -x ELSE x

\* the distance column of find_all_with_distance for one row: acos fails with
\* "input is out of range" on an argument above 1
distance(user_lat, user_lng, row) ==
  IF row.lat = user_lat /\ row.lng = user_lng
  THEN IF row.lat \in RoundsAboveOne
       THEN [kind |-> "input is out of range", metres |-> 0]
       ELSE [kind |-> "ok", metres |-> 0]
  ELSE [kind |-> "ok", metres |-> MetresPerDegree * Abs(row.lat - user_lat)]

\* the sequences that list every member of rows once
Listings(rows) ==
  { l \in [1..Cardinality(rows) -> rows] :
      \A i, j \in 1..Cardinality(rows) : i # j => l[i] # l[j] }

\* the rows of table requests
AllRequests == { requests[id] : id \in DOMAIN requests }

\* impl From<Request> for RequestWithDistance
RequestWithDistance(row) ==
  [id |-> row.id, user_id |-> row.user_id, lat |-> row.lat, lng |-> row.lng,
   created_at |-> row.created_at, distance |-> None]

\* repository::find_all: ORDER BY created_at DESC, ties in any order
find_all ==
  { l \in Listings(AllRequests) :
      \A i, j \in 1..Len(l) : i < j => l[i].created_at >= l[j].created_at }

\* repository::find_all_with_distance: ORDER BY distance ASC, ties in any order
find_all_with_distance(user_lat, user_lng) ==
  LET withDistance ==
        { [RequestWithDistance(row) EXCEPT
             !.distance = Some(distance(user_lat, user_lng, row).metres)] :
            row \in AllRequests }
  IN { l \in Listings(withDistance) :
         \A i, j \in 1..Len(l) : i < j => l[i].distance.value <= l[j].distance.value }

\* impl From<sqlx::Error> for AppError
from_sqlx_error == [status_code |-> StatusCodes.INTERNAL_SERVER_ERROR,
                    message |-> "Internal server error occurred"]

\* the positions a client may ask the distances from: ?lat=..&lng=..
Coordinates == {None} \cup { Some(x) : x \in Latitudes }

Longitudes == {None, Some(Meridian)}

\* the payloads of create_request
CreateRequestRequests == [lat : Latitudes, lng : {Meridian}]

\* RequestService::create_request(user_id, req): one INSERT
CreateRequest(p, user_id, r) ==
  /\ req[p].pc = "idle"
  /\ requestSeq <= MaxRequests
  /\ LET row == [id |-> requestSeq, user_id |-> user_id, lat |-> r.lat,
                 lng |-> r.lng, created_at |-> now]
     IN /\ requests' = (requestSeq :> row) @@ requests
        /\ requestSeq' = requestSeq + 1
        /\ req' = [req EXCEPT ![p].pc = "done", ![p].op = "create_request",
                              ![p].arg.user_id = user_id,
                              ![p].arg.lat = Some(r.lat), ![p].arg.lng = Some(r.lng),
                              ![p].result.kind = "ok",
                              ![p].result.requests = <<RequestWithDistance(row)>>,
                              ![p].response.status_code = StatusCodes.OK]
  /\ UNCHANGED << store, now, pictures, pictureSeq, objects, sessions >>

\* RequestService::get_requests(user_lat, user_lng): one SELECT
GetRequests(p, user_lat, user_lng) ==
  /\ req[p].pc = "idle"
  /\ LET asked == [req[p] EXCEPT !.pc = "done", !.op = "get_requests",
                                 !.arg.lat = user_lat, !.arg.lng = user_lng]
     IN IF user_lat.some /\ user_lng.some
        THEN IF \E row \in AllRequests :
                  distance(user_lat.value, user_lng.value, row).kind # "ok"
             THEN req' = [req EXCEPT ![p] =
                            [asked EXCEPT !.result.kind = "InternalServerError",
                                          !.result.msg = from_sqlx_error.message,
                                          !.response = from_sqlx_error]]
             ELSE \E l \in find_all_with_distance(user_lat.value, user_lng.value) :
                    req' = [req EXCEPT ![p] =
                              [asked EXCEPT !.result.kind = "ok",
                                            !.result.requests = l,
                                            !.response.status_code = StatusCodes.OK]]
        ELSE \E l \in find_all :
               req' = [req EXCEPT ![p] =
                         [asked EXCEPT !.result.kind = "ok",
                                       !.result.requests =
                                         [i \in 1..Len(l) |-> RequestWithDistance(l[i])],
                                       !.response.status_code = StatusCodes.OK]]
  /\ UNCHANGED << store, now, catalog, sessions >>

NextRequests ==
  \/ \E r \in CreateRequestRequests : CreateRequest("p1", 1, r)
  \/ \E user_lat \in Coordinates : \E user_lng \in Longitudes :
       GetRequests("p1", user_lat, user_lng)
  \/ Return("p1")
  \/ Tick

\* requests are created and listed by one worker while time passes
SpecRequests == Init /\ [][NextRequests]_vars

(* ----------------------------- the pictures --------------------------- *)

\* the most rows table pictures is given
MaxPictures == 2

\* the storage configuration of the process
TheStorage ==
  [bucket |-> <<"d">>, endpoint |-> Some(<<"e">>), public_endpoint |-> None]

\* impl From<PictureServiceError> for AppError
from_picture_service_error(e) ==
  [status_code |->
     CASE e.kind = "InternalServerError" -> StatusCodes.INTERNAL_SERVER_ERROR
       [] e.kind = "BadRequest" -> StatusCodes.BAD_REQUEST
       [] e.kind = "NotFound" -> StatusCodes.NOT_FOUND
       [] e.kind = "Forbidden" -> StatusCodes.FORBIDDEN,
   message |-> e.msg]

\* the picture handler returns r: .map_err(Into::into)
PictureReturned(operation, a, r) ==
  [Idle EXCEPT !.pc = "done", !.op = operation, !.arg = a, !.result = r,
               !.response = IF r.kind = "ok"
                            THEN [status_code |-> StatusCodes.OK, message |-> ""]
                            ELSE from_picture_service_error(r)]

PictureFinish(p, r) == Step(p, PictureReturned(req[p].op, req[p].arg, r))

\* file_name.split('.').next_back(): what follows the last dot, or the
\* whole name when it has none
extension(file_name) ==
  LET dots == { i \in 1..Len(file_name) : file_name[i] = "." }
  IN IF dots = {} THEN file_name
     ELSE SubSeq(file_name, (CHOOSE i \in dots : \A j \in dots : j <= i) + 1,
                 Len(file_name))

\* the decimal digits of an account id
Decimal(n) == << <<"1">>, <<"2">>, <<"3">>, <<"4">> >>[n]

\* Uuid::new_v4(): the uuids, in the order they are drawn; one is
\* drawn again only when no key has it any more
Uuids == <<"u", "v">>

\* format!("pictures/{}/{}.{}", user_id, uuid, extension)
unique_key(user_id, id, ext) ==
  <<"p">> \o Slash \o Decimal(user_id) \o Slash \o <<id>> \o <<".">> \o ext

\* the uuids of the keys in the bucket, in the URLs of the rows, or about to
\* be put there
DrawnUuids ==
  { Uuids[i] : i \in { i \in 1..Len(Uuids) :
      \/ \E key \in objects : Len(key) >= 5 /\ key[5] = Uuids[i]
      \/ \E id \in DOMAIN pictures :
           LET key == extract_key_from_url(TheStorage, pictures[id].image_url)
           IN key.some /\ Len(key.value) >= 5 /\ key.value[5] = Uuids[i]
      \/ \E q \in Procs : Len(req[q].arg.key) >= 5 /\ req[q].arg.key[5] = Uuids[i] } }

\* a uuid no key has: the first one not drawn yet
new_v4 ==
  Uuids[CHOOSE i \in 1..Len(Uuids) :
          /\ Uuids[i] \notin DrawnUuids
          /\ \A j \in 1..(i - 1) : Uuids[j] \in DrawnUuids]

\* names of uploaded files
FileNames == { <<"a", ".", "j">> }

\* URLs of pictures that are kept elsewhere
ForeignUrls == { <<"x", "/", "t">> }

\* SELECT ... FROM pictures WHERE id = $1
picture_find_by_id(id) ==
  IF id \in DOMAIN pictures THEN pictures[id] ELSE NoPicture

\* DELETE FROM pictures WHERE id = $1
picture_delete(id) == [i \in DOMAIN pictures \ {id} |-> pictures[i]]

\* PictureService::upload_and_create_picture(user_id, file_data, file_name, ..)
UploadAndCreatePicture(p, user_id, file_name) ==
  /\ req[p].pc = "idle"
  /\ pictureSeq + Cardinality({q \in Procs : req[q].pc \in {"p_upload", "p_insert"}})
       <= MaxPictures
  /\ Cardinality(DrawnUuids) < Len(Uuids)
  /\ Step(p, [Idle EXCEPT !.pc = "p_upload", !.op = "upload_and_create_picture",
                          !.arg.user_id = user_id, !.arg.file_name = file_name,
                          !.arg.storage = TheStorage,
                          !.arg.key = unique_key(user_id, new_v4, extension(file_name))])
  /\ UNCHANGED << store, now, catalog, sessions >>

\* self.storage.upload_file(&unique_key, ..).await: the object is put, or
\* the upload fails
UploadPut(p) ==
  /\ req[p].pc = "p_upload"
  /\ \E outcome \in UploadOutcomes :
       IF outcome = "stored"
       THEN /\ objects' = objects \cup {req[p].arg.key}
            /\ Step(p, [req[p] EXCEPT !.pc = "p_insert",
                                      !.arg.url = url_of(req[p].arg.storage, req[p].arg.key)])
       ELSE /\ objects' = objects
            /\ PictureFinish(p, Err("InternalServerError", "Failed to upload to S3"))
  /\ UNCHANGED << store, now, pictures, pictureSeq, requests, requestSeq, sessions >>

\* PictureService::create_picture(user_id, image_url)
CreatePicture(p, user_id, image_url) ==
  /\ req[p].pc = "idle"
  /\ pictureSeq + Cardinality({q \in Procs : req[q].pc \in {"p_upload", "p_insert"}})
       <= MaxPictures
  /\ Step(p, [Idle EXCEPT !.pc = "p_insert", !.op = "create_picture",
                          !.arg.user_id = user_id, !.arg.url = image_url])
  /\ UNCHANGED << store, now, catalog, sessions >>

\* repository::create(&self.db, user_id, &image_url).await?
PictureInsert(p) ==
  /\ req[p].pc = "p_insert"
  /\ LET row == [id |-> pictureSeq, user_id |-> req[p].arg.user_id,
                 image_url |-> req[p].arg.url, created_at |-> now]
     IN /\ pictures' = (pictureSeq :> row) @@ pictures
        /\ pictureSeq' = pictureSeq + 1
        /\ PictureFinish(p, [NoResult EXCEPT !.kind = "ok"])
  /\ UNCHANGED << store, now, objects, requests, requestSeq, sessions >>

\* PictureService::delete_picture(picture_id, user_id)
DeletePicture(p, picture_id, user_id) ==
  /\ req[p].pc = "idle"
  /\ Step(p, [Idle EXCEPT !.pc = "d_find", !.op = "delete_picture",
                          !.arg.picture_id = picture_id, !.arg.user_id = user_id,
                          !.arg.storage = TheStorage])
  /\ UNCHANGED << store, now, catalog, sessions >>

\* the owner of the picture is not looked at
delete_picture_found_AnyUser(r, picture) ==
  IF picture = NoPicture
  THEN PictureReturned(r.op, r.arg, Err("NotFound", "Picture with id not found"))
  ELSE LET key == extract_key_from_url(r.arg.storage, picture.image_url)
       IN IF key.some
          THEN [r EXCEPT !.pc = "d_file", !.picture = picture, !.arg.key = key.value]
          ELSE [r EXCEPT !.pc = "d_row", !.picture = picture]

\* where delete_picture goes once find_by_id has returned picture: NotFound,
\* Forbidden, the storage delete, or the row delete when the URL has no key
delete_picture_found(r, picture) ==
  IF picture = NoPicture
  THEN PictureReturned(r.op, r.arg, Err("NotFound", "Picture with id not found"))
  ELSE IF picture.user_id # r.arg.user_id
  THEN PictureReturned(r.op, r.arg,
         Err("Forbidden", "You do not have permission to delete this picture"))
  ELSE LET key == extract_key_from_url(r.arg.storage, picture.image_url)
       IN IF key.some
          THEN [r EXCEPT !.pc = "d_file", !.picture = picture, !.arg.key = key.value]
          ELSE [r EXCEPT !.pc = "d_row", !.picture = picture]

\* repository::find_by_id(&self.db, picture_id).await?.ok_or_else(NotFound)?
\* and the check of the owner
DeleteFind(p) ==
  /\ req[p].pc = "d_find"
  /\ Step(p, delete_picture_found(req[p], picture_find_by_id(req[p].arg.picture_id)))
  /\ UNCHANGED << store, now, catalog, sessions >>

\* delete_object answers or fails
DeleteOutcomes == {"deleted", "error"}

\* self.storage.delete_file(&key).await: deleting an absent key succeeds
DeleteFile(p) ==
  /\ req[p].pc = "d_file"
  /\ \E outcome \in DeleteOutcomes :
       IF outcome = "deleted"
       THEN /\ objects' = objects \ {req[p].arg.key}
            /\ Step(p, [req[p] EXCEPT !.pc = "d_row"])
       ELSE /\ objects' = objects
            /\ PictureFinish(p, Err("InternalServerError", "Failed to delete from S3"))
  /\ UNCHANGED << store, now, pictures, pictureSeq, requests, requestSeq, sessions >>

\* repository::delete(&self.db, picture_id).await?; Ok(())
DeleteRow(p) ==
  /\ req[p].pc = "d_row"
  /\ pictures' = picture_delete(req[p].arg.picture_id)
  /\ PictureFinish(p, [NoResult EXCEPT !.kind = "ok"])
  /\ UNCHANGED << store, now, pictureSeq, objects, requests, requestSeq, sessions >>

\* the await points at which a statement on table pictures is pending
PictureStorePcs == {"p_insert", "d_find", "d_row"}

\* the statement fails: `?` returns InternalServerError("Database error: ..")
PictureStoreFailure(p) ==
  /\ req[p].pc \in PictureStorePcs
  /\ PictureFinish(p, DatabaseError)
  /\ UNCHANGED << store, now, catalog, sessions >>

NextPictures ==
  \/ \E p \in Procs : \E user_id \in 1..MaxUsers : \E file_name \in FileNames :
       UploadAndCreatePicture(p, user_id, file_name)
  \/ \E p \in Procs : UploadPut(p)
  \/ \E p \in Procs : \E user_id \in 1..MaxUsers : \E image_url \in ForeignUrls :
       CreatePicture(p, user_id, image_url)
  \/ \E p \in Procs : PictureInsert(p)
  \/ \E p \in Procs : \E picture_id \in 1..MaxPictures : \E user_id \in 1..MaxUsers :
       DeletePicture(p, picture_id, user_id)
  \/ \E p \in Procs : DeleteFind(p)
  \/ \E p \in Procs : DeleteFile(p)
  \/ \E p \in Procs : DeleteRow(p)
  \/ \E p \in Procs : PictureStoreFailure(p)
  \/ \E p \in Procs : Cancel(p)
  \/ \E p \in Procs : Return(p)

\* pictures are uploaded and deleted on all workers
SpecPictures == Init /\ [][NextPictures]_vars

(* ------------------------ the authenticated routes -------------------- *)

\* AppError::unauthorized(message)
unauthorized(message) ==
  [kind |-> "Unauthorized", msg |-> message, claims |-> NoClaims]

\* middleware::auth::auth_middleware(headers), called at second at
auth_middleware(header, at) ==
  IF header.scheme = "none" THEN unauthorized("Authorization header missing")
  ELSE IF header.scheme = "bytes" THEN unauthorized("Invalid authorization header")
  ELSE IF header.scheme # "Bearer" THEN unauthorized("Invalid authorization format")
  ELSE LET decoded == decode_jwt(header.jwt, at)
       IN IF decoded.kind # "ok" THEN unauthorized("Invalid token")
          ELSE [kind |-> "ok", msg |-> "", claims |-> decoded.claims]

\* the hour at which the routes are exercised: two session lifetimes after
\* the account was created and verified
RoutesHour == 2 * SessionHours

\* the account of the routes specification, created and verified at hour 0
TheUser ==
  [id |-> 1, email |-> EmailA, display_name |-> "A",
   password |-> hash_password(PwA), email_verified |-> TRUE]

\* the sessions the account was issued: at hour 0 and at RoutesHour
IssuedSessions ==
  { encode_jwt(session_claims(TheUser, t)) : t \in {0, RoutesHour} }

\* the Authorization headers a client may send: none, bytes that are no
\* string, another scheme, and Bearer with a string that is no JWT, a token
\* signed with another secret, or a session of the account, expired or not
Headers ==
  {NoHeader, [scheme |-> "bytes", jwt |-> NoJwt]}
    \cup { [scheme |-> "Basic", jwt |-> jwt] : jwt \in IssuedSessions }
    \cup { [scheme |-> "Bearer", jwt |-> [jwt EXCEPT !.form = f, !.key = k]] :
             jwt \in IssuedSessions, f \in {"jwt", "garbage"}, k \in JwtSecrets }

\* the multipart forms a client may post to create_picture
Forms ==
  [file_data : {"none", "bytes"}, file_name : {None, Some(<<"a", ".", "j">>)}]

\* the payloads a client may post to create_request: a latitude in range and
\* one out of range
RequestPayloads == [lat : {9, 100}, lng : {Meridian}]

\* CreateRequestRequest::validate(): the ranges of lat and lng
validate_request(r) ==
  /\ r.lat >= -90 /\ r.lat <= 90
  /\ r.lng >= -180 /\ r.lng <= 180

\* the handler of route answers with the AppError e at once; body is what the
\* request carried
AnsweredAtOnce(route, header, body, e) ==
  [Idle EXCEPT !.pc = "done", !.op = route, !.arg.authorization = header,
               !.arg.body = body,
               !.result = Err(e.kind, e.msg),
               !.response = [status_code |-> e.status_code, message |-> e.msg]]

\* let claims = auth_middleware(headers).await?: the 401 of a handler
Refused(route, header, body, a) ==
  AnsweredAtOnce(route, header, body,
           [kind |-> a.kind, msg |-> a.msg, status_code |-> StatusCodes.UNAUTHORIZED])

\* AppError::bad_request(message)
bad_request(message) ==
  [kind |-> "BadRequest", msg |-> message, status_code |-> StatusCodes.BAD_REQUEST]

\* get_current_user_handler
GetCurrentUserHandler(p, header) ==
  LET a == auth_middleware(header, timestamp(now))
  IN IF a.kind # "ok"
     THEN /\ req[p].pc = "idle"
          /\ Step(p, Refused("get_current_user_handler", header, "none", a))
          /\ UNCHANGED << store, now, catalog, sessions >>
     ELSE GetUserById(p, a.claims.user_id)

\* resend_verification_handler
ResendVerificationHandler(p, header) ==
  LET a == auth_middleware(header, timestamp(now))
  IN IF a.kind # "ok"
     THEN /\ req[p].pc = "idle"
          /\ Step(p, Refused("resend_verification_handler", header, "none", a))
          /\ UNCHANGED << store, now, catalog, sessions >>
     ELSE SendVerificationEmail(p, a.claims.user_id)

\* create_picture_handler: the session, then the fields of the form, then
\* upload_and_create_picture
CreatePictureHandler(p, header, form) ==
  LET a == auth_middleware(header, timestamp(now))
      body == IF form.file_data = "none" \/ ~form.file_name.some
              THEN "incomplete" ELSE "complete"
  IN IF a.kind # "ok"
     THEN /\ req[p].pc = "idle"
          /\ Step(p, Refused("create_picture_handler", header, body, a))
          /\ UNCHANGED << store, now, catalog, sessions >>
     ELSE IF form.file_data = "none"
     THEN /\ req[p].pc = "idle"
          /\ Step(p, AnsweredAtOnce("create_picture_handler", header, body,
                                    bad_request("No file provided")))
          /\ UNCHANGED << store, now, catalog, sessions >>
     ELSE IF ~form.file_name.some
     THEN /\ req[p].pc = "idle"
          /\ Step(p, AnsweredAtOnce("create_picture_handler", header, body,
                                    bad_request("No file name provided")))
          /\ UNCHANGED << store, now, catalog, sessions >>
     ELSE UploadAndCreatePicture(p, a.claims.user_id, form.file_name.value)

\* delete_picture_handler
DeletePictureHandler(p, header, picture_id) ==
  LET a == auth_middleware(header, timestamp(now))
  IN IF a.kind # "ok"
     THEN /\ req[p].pc = "idle"
          /\ Step(p, [Refused("delete_picture_handler", header, "none", a)
                        EXCEPT !.arg.picture_id = picture_id])
          /\ UNCHANGED << store, now, catalog, sessions >>
     ELSE DeletePicture(p, picture_id, a.claims.user_id)

\* create_request_handler: the payload is validated, then the session is
\* asked for, then create_request is called
CreateRequestHandler(p, header, payload) ==
  LET a == auth_middleware(header, timestamp(now))
      body == IF validate_request(payload) THEN "valid" ELSE "invalid"
  IN IF ~validate_request(payload)
     THEN /\ req[p].pc = "idle"
          /\ Step(p, AnsweredAtOnce("create_request_handler", header, body,
                                    bad_request("Validation failed")))
          /\ UNCHANGED << store, now, catalog, sessions >>
     ELSE IF a.kind # "ok"
     THEN /\ req[p].pc = "idle"
          /\ Step(p, Refused("create_request_handler", header, body, a))
          /\ UNCHANGED << store, now, catalog, sessions >>
     ELSE CreateRequest(p, a.claims.user_id, payload)

\* the account exists and is verified, its token is used, and it was issued
\* a session at hour 0 and one now
InitRoutes ==
  /\ users = (1 :> TheUser)
  /\ tokens = (1 :> [id |-> 1, user_id |-> 1, token |-> uuid(1),
                     token_type |-> "email_verification",
                     expires_at |-> TokenHours, used_at |-> 0])
  /\ userSeq = 2
  /\ tokenSeq = 2
  /\ usedWrites = [i \in 1..MaxTokens |-> IF i = 1 THEN 1 ELSE 0]
  /\ now = RoutesHour
  /\ req = [p \in Procs |-> Idle]
  /\ EmptyCatalog
  /\ sessions = IssuedSessions

NextRoutes ==
  \/ \E header \in Headers : GetCurrentUserHandler("p1", header)
  \/ \E header \in Headers : ResendVerificationHandler("p1", header)
  \/ SendCreateToken("p1")
  \/ SendFindUser("p1")
  \/ SendVerificationEmailToUser("p1")
  \/ StoreFailure("p1")
  \/ \E header \in Headers : \E form \in Forms : CreatePictureHandler("p1", header, form)
  \/ UploadPut("p1")
  \/ PictureInsert("p1")
  \/ \E header \in Headers : \E picture_id \in 1..MaxPictures :
       DeletePictureHandler("p1", header, picture_id)
  \/ DeleteFind("p1")
  \/ DeleteFile("p1")
  \/ DeleteRow("p1")
  \/ PictureStoreFailure("p1")
  \/ \E header \in Headers : \E payload \in RequestPayloads :
       CreateRequestHandler("p1", header, payload)
  \/ Cancel("p1")
  \/ Return("p1")

\* one worker serves the routes that ask for a session
SpecRoutes == InitRoutes /\ [][NextRoutes]_vars

(* ---------------------------- the transport --------------------------- *)

\* the session a response carries, if any: LoginResponse / VerifyEmailResponse
session_of(r) ==
  IF r.kind = "ok" /\ r.issued.op # "none" THEN {encode_jwt(r.claims)} ELSE {}

\* the response is handed to the client, who keeps the session in it in
\* place of an earlier one of the same account (which expires earlier)
Deliver(p) ==
  /\ req[p].pc = "done"
  /\ LET new == session_of(req[p].result)
     IN sessions' = { j \in sessions :
                        \A k \in new : k.claims.user_id # j.claims.user_id } \cup new
  /\ Step(p, Idle)
  /\ UNCHANGED << store, now, catalog >>

\* the Authorization headers a client can send: none, or a session it holds
ClientHeaders ==
  {NoHeader} \cup { [scheme |-> "Bearer", jwt |-> j] : j \in sessions }

\* user_routes(): the operations a client reaches, and the steps they take
NextTransport ==
  \/ \E r \in CreateRequests : CreateUser("p1", r)
  \/ CreateUserInsertUser("p1")
  \/ CreateUserInsertToken("p1")
  \/ CreateUserCommit("p1")
  \/ SendVerificationEmailToUser("p1")
  \/ \E r \in LoginRequests : Login("p1", r)
  \/ \E token \in TokenStrings : VerifyEmail("p1", token)
  \/ VerifyEmailFind("p1")
  \/ VerifyEmailMarkUser("p1")
  \/ VerifyEmailMarkToken("p1")
  \/ VerifyEmailCommit("p1")
  \/ \E header \in ClientHeaders : ResendVerificationHandler("p1", header)
  \/ SendCreateToken("p1")
  \/ SendFindUser("p1")
  \/ \E header \in ClientHeaders : GetCurrentUserHandler("p1", header)
  \/ StoreFailure("p1")
  \/ Cancel("p1")
  \/ Deliver("p1")
  \/ Tick

\* clients reach the service through its routes only, while time passes
SpecTransport == Init /\ [][NextTransport]_vars

(* ------------------------------ observations -------------------------- *)

\* worker p has returned from verify_email(t)
VerifyReturned(p, t) ==
  /\ req[p].pc = "done"
  /\ req[p].op = "verify_email"
  /\ req[p].arg.token = t

\* the result carries a session credential
HasSession(r) == r.claims # NoClaims

\* worker p is past the lookup of verify_email and holds its token row
Redeeming(p) == req[p].pc \in {"v_user", "v_token", "v_commit"}

\* the tokens owned by account id
TokensOf(id) == { i \in DOMAIN tokens : tokens[i].user_id = id }

(* -------------------------------- C1 ---------------------------------- *)

(* C1: when verify_email calls on the same live token overlap, at most one of
   them redeems it.  The update of used_at is committed at most once per
   token; two workers are never both past the lookup on the same token row; a
   call that returned success is the one that committed the update; and of
   two returned calls on the same token string of which one succeeded, the
   other got TokenAlreadyUsed or InvalidToken (InternalServerError only when
   its store call failed). *)
C1_SingleRedemption ==
  /\ \A i \in DOMAIN usedWrites : usedWrites[i] <= 1
  /\ \A p, q \in Procs :
       (p # q /\ Redeeming(p) /\ Redeeming(q)) => req[p].token.id # req[q].token.id
  /\ \A p \in Procs, t \in TokenStrings :
       (VerifyReturned(p, t) /\ req[p].result.kind = "ok")
         => /\ find_by_token(t) # NoToken
            /\ find_by_token(t).used_at # Null
            /\ usedWrites[find_by_token(t).id] = 1
  /\ \A p, q \in Procs, t \in TokenStrings :
       (p # q /\ VerifyReturned(p, t) /\ VerifyReturned(q, t)
          /\ req[p].result.kind = "ok" /\ req[q].result # DatabaseError)
         => req[q].result.kind \in {"TokenAlreadyUsed", "InvalidToken"}

\* both workers have returned from verify_email on the same token string: one
\* with success, the other with TokenAlreadyUsed
C1_Witness ==
  \E p, q \in Procs, t \in TokenStrings :
    /\ p # q
    /\ VerifyReturned(p, t) /\ req[p].result.kind = "ok"
    /\ VerifyReturned(q, t) /\ req[q].result.kind = "TokenAlreadyUsed"

(* -------------------------------- C2 ---------------------------------- *)

\* worker p takes the step that ends the lookup of verify_email on a token
\* string whose token has been redeemed
LookupOfRedeemed(p) ==
  /\ req[p].pc = "v_find"
  /\ req'[p].pc # "v_find"
  /\ find_by_token(req[p].arg.token) # NoToken
  /\ find_by_token(req[p].arg.token).used_at # Null

\* the call does not go on to redeem; if it returns anything but a store
\* failure, it returns an error of kind `kind`
RefusedWith(p, kind) ==
  /\ req'[p].pc # "v_user"
  /\ (req'[p].pc = "done" /\ req'[p].result # DatabaseError)
       => req'[p].result.kind = kind

(* C2 as amended: once a token has been redeemed, every later verify_email
   with its token string is refused: with TokenAlreadyUsed as long as the
   clock has not passed its expires_at, with TokenExpired once it has (the
   expiry check comes first); never with success. *)
C2_RedeemedStaysRefused ==
  [][\A p \in Procs :
       LookupOfRedeemed(p)
         => RefusedWith(p, IF find_by_token(req[p].arg.token).expires_at < now
                           THEN "TokenExpired" ELSE "TokenAlreadyUsed")]_vars

\* a redeemed token was presented again after its expiry and the call
\* returned TokenExpired
C2_Witness ==
  \E p \in Procs, t \in TokenStrings :
    /\ VerifyReturned(p, t)
    /\ req[p].result.kind = "TokenExpired"
    /\ find_by_token(t).used_at # Null

\* C2 as stated: every later call with a redeemed token string fails with
\* TokenAlreadyUsed, at any later time
C2_AlwaysTokenAlreadyUsed ==
  [][\A p \in Procs : LookupOfRedeemed(p) => RefusedWith(p, "TokenAlreadyUsed")]_vars

(* -------------------------------- C3 ---------------------------------- *)

\* worker p's create_user returns in this step, the mail to the account
\* req[p].user handed to the notifier
CreateUserReturns(p) ==
  /\ req[p].pc = "mail"
  /\ req[p].op = "create_user"
  /\ req'[p].pc = "done"

\* in the state a step leads to, account id has exactly one token, and that
\* token is a redeemable email_verification token
OneRedeemableToken(id) ==
  \E i \in DOMAIN tokens' :
    /\ { j \in DOMAIN tokens' : tokens'[j].user_id = id } = {i}
    /\ tokens'[i].token_type = "email_verification"
    /\ tokens'[i].used_at = Null
    /\ tokens'[i].expires_at > now'

(* C3: a create_user call with a valid payload and an email that is not
   registered succeeds: validation lets it through, the insert of the account
   is accepted, and it returns Ok with the new account.  In the state right
   after it returns the new account is stored with email_verified = false
   and owns exactly one token, of type email_verification, with used_at null
   and expires_at in the future. *)
C3_CreateUserYieldsOneToken ==
  [][\A p \in Procs :
       /\ (req[p].pc = "idle" /\ req'[p].op = "create_user"
             /\ validate(req'[p].arg))
            => req'[p].pc = "c_user"
       /\ (req[p].pc = "c_user" /\ req'[p] # req[p] /\ userSeq' # userSeq
             /\ find_by_email(req[p].arg.email) = NoUser)
            => req'[p].pc = "c_token"
       /\ CreateUserReturns(p)
            => /\ req'[p].result.kind = "ok"
               /\ req'[p].result.user = req[p].user
               /\ req[p].user.id \in DOMAIN users'
               /\ users'[req[p].user.id].email = req[p].arg.email
               /\ ~users'[req[p].user.id].email_verified
               /\ OneRedeemableToken(req[p].user.id)]_vars

(* -------------------------------- C4 ---------------------------------- *)

\* worker p serves a login in this step, for an email whose account is not
\* verified
LoginOfUnverified(p) ==
  /\ req[p].pc = "idle"
  /\ req'[p].op = "login"
  /\ find_by_email(req'[p].arg.email) # NoUser
  /\ ~find_by_email(req'[p].arg.email).email_verified

(* C4: login for an account whose email_verified is false returns
   Unauthorized ("Email not verified") whatever the password, correct or
   not, and carries no session; the only other result is the
   InternalServerError of a failed store call.  The answer is the one of the
   verification check also when the password is wrong, so that check comes
   before the password comparison. *)
C4_UnverifiedLoginRefused ==
  [][\A p \in Procs :
       LoginOfUnverified(p)
         => /\ ~HasSession(req'[p].result)
            /\ \/ req'[p].result = Err("Unauthorized", "Email not verified")
               \/ req'[p].result = DatabaseError]_vars

\* a login with the correct password of an unverified account was refused
C4_Witness ==
  \E p \in Procs :
    /\ req[p].pc = "done" /\ req[p].op = "login"
    /\ req[p].result = Err("Unauthorized", "Email not verified")
    /\ find_by_email(req[p].arg.email) # NoUser
    /\ ~find_by_email(req[p].arg.email).email_verified
    /\ find_by_email(req[p].arg.email).password = hash_password(req[p].arg.password)

(* -------------------------------- C5 ---------------------------------- *)

\* worker p has returned a session credential
SessionIssued(p) == req[p].pc = "done" /\ HasSession(req[p].result)

(* C5 as amended: every session credential a service operation has issued
   was issued for an account whose email_verified was true at issuance; a
   session issued by login was issued on the correct password of that
   account; verify_email issues its session on the redeemed token alone, it
   takes no password. *)
C5_SessionsForVerifiedAccounts ==
  \A p \in Procs :
    SessionIssued(p)
      => /\ req[p].result.issued.op \in {"login", "verify_email"}
         /\ req[p].result.issued.email_verified
         /\ req[p].result.issued.op = "login" => req[p].result.issued.password_ok

\* one worker holds a session issued by login, the other one issued by
\* verify_email
C5_Witness ==
  \E p, q \in Procs :
    /\ SessionIssued(p) /\ req[p].result.issued.op = "login"
    /\ SessionIssued(q) /\ req[q].result.issued.op = "verify_email"

\* C5 as stated: every session was issued for a verified account whose
\* correct password was supplied in the operation that issued it
C5_SessionsOnPassword ==
  \A p \in Procs :
    SessionIssued(p)
      => /\ req[p].result.issued.email_verified
         /\ req[p].result.issued.password_ok

(* -------------------------------- C6 ---------------------------------- *)

\* in the store (us, ts) every used token is owned by a verified account
UsedImpliesVerified(us, ts) ==
  \A i \in DOMAIN ts :
    ts[i].used_at # Null
      => /\ ts[i].user_id \in DOMAIN us
         /\ us[ts[i].user_id].email_verified

\* worker p's verify_email ends in this step without its commit: a store call
\* failed after the lookup, or the request was cancelled
VerifyAborts(p) ==
  /\ Redeeming(p)
  /\ \/ req'[p].pc = "idle"
     \/ req'[p].pc = "done" /\ req'[p].result = DatabaseError

(* C6: every token whose used_at is set is owned by an account whose
   email_verified is true, in every state.  The two writes of verify_email
   become visible together: a call that fails or is cancelled after the
   lookup, also between the two writes, leaves users and verification_tokens
   as they were. *)
C6_UsedTokenHasVerifiedOwner ==
  [][/\ UsedImpliesVerified(users', tokens')
     /\ \A p \in Procs :
          VerifyAborts(p) => users' = users /\ tokens' = tokens]_vars

\* a verify_email stands between its two writes: the account is marked in the
\* transaction, the token not yet, and the store shows neither
C6_Witness ==
  \E p \in Procs :
    /\ req[p].pc = "v_token"
    /\ req[p].user.email_verified
    /\ ~users[req[p].user.id].email_verified
    /\ tokens[req[p].token.id].used_at = Null

(* -------------------------------- C7 ---------------------------------- *)

\* in the store (us, ts) every account owns a token
EveryAccountHasToken(us, ts) ==
  \A id \in DOMAIN us : \E i \in DOMAIN ts : ts[i].user_id = id

\* worker p's create_user ends in this step before its commit: an insert or
\* the commit failed, or the request was cancelled
CreateUserAborts(p) ==
  /\ req[p].pc \in {"c_user", "c_token", "c_commit"}
  /\ req'[p].pc \in {"idle", "done"}

(* C7: a create_user that fails or is cancelled before its transaction has
   committed (at the insert of the account, at the insert of the token, at
   the commit) leaves users and verification_tokens as they were, and in
   every state every stored account owns a token. *)
C7_NoAccountWithoutToken ==
  [][/\ EveryAccountHasToken(users', tokens')
     /\ \A p \in Procs :
          CreateUserAborts(p) => users' = users /\ tokens' = tokens]_vars

\* a create_user has made both inserts and not committed: the store has
\* neither the account nor the token
C7_Witness ==
  \E p \in Procs :
    /\ req[p].pc = "c_commit"
    /\ req[p].user.id \notin DOMAIN users
    /\ req[p].token.id \notin DOMAIN tokens

(* -------------------------------- C8 ---------------------------------- *)

\* worker p takes the step that ends the lookup of verify_email on a token
\* string whose token has expired
LookupOfExpired(p) ==
  /\ req[p].pc = "v_find"
  /\ req'[p].pc # "v_find"
  /\ find_by_token(req[p].arg.token) # NoToken
  /\ find_by_token(req[p].arg.token).expires_at < now

(* C8: verify_email on a token whose expires_at has passed returns
   TokenExpired, used or not (InternalServerError only when the lookup
   itself failed), issues no session, and leaves users and
   verification_tokens as they were: the account keeps its email_verified
   and the token its used_at. *)
C8_ExpiredTokenRefused ==
  [][\A p \in Procs :
       LookupOfExpired(p)
         => /\ RefusedWith(p, "TokenExpired")
            /\ ~HasSession(req'[p].result)
            /\ users' = users
            /\ tokens' = tokens]_vars

\* verify_email has returned TokenExpired for a token that was never used;
\* its account is still unverified
C8_Witness ==
  \E p \in Procs, t \in TokenStrings :
    /\ VerifyReturned(p, t)
    /\ req[p].result.kind = "TokenExpired"
    /\ find_by_token(t).used_at = Null
    /\ find_by_token(t).user_id \in DOMAIN users
    /\ ~users[find_by_token(t).user_id].email_verified

(* -------------------------------- C9 ---------------------------------- *)

\* the token with value t exists, is unused, and the clock is strictly before
\* its expires_at
ValidBeforeExpiry(t) ==
  /\ find_by_token(t) # NoToken
  /\ find_by_token(t).used_at = Null
  /\ now < find_by_token(t).expires_at

(* C9: verify_email(t) goes on to redeem exactly when a token with value t
   exists, its used_at is null and the clock is strictly before its
   expires_at; at every time now >= expires_at, the instant now = expires_at
   included, it is refused. *)
C9_RedeemableIffBeforeExpiry ==
  [][\A p \in Procs :
       (req[p].pc = "v_find" /\ req'[p].pc # "v_find")
         => /\ req'[p].pc = "v_user" => ValidBeforeExpiry(req[p].arg.token)
            /\ (ValidBeforeExpiry(req[p].arg.token) /\ req'[p].pc = "done")
                 => req'[p].result = DatabaseError]_vars

(* -------------------------------- C10 --------------------------------- *)

\* worker p's verify_email commits in this step, for a token of account id
VerifyCommits(p, id) ==
  /\ req[p].pc = "v_commit"
  /\ req'[p].pc = "done"
  /\ req'[p].result # DatabaseError
  /\ req[p].token.user_id = id

(* C10: no step of any operation takes email_verified of an account from
   true to false or removes an account; an account enters the store
   unverified; and the only step that changes the flag is the commit of a
   verify_email on a token of that account. *)
C10_VerifiedStaysVerified ==
  [][/\ \A id \in DOMAIN users :
          /\ id \in DOMAIN users'
          /\ users[id].email_verified => users'[id].email_verified
          /\ users'[id].email_verified # users[id].email_verified
               => \E p \in Procs : VerifyCommits(p, id)
     /\ \A id \in DOMAIN users' \ DOMAIN users : ~users'[id].email_verified]_vars

\* a verified account was sent a further verification mail and is still
\* verified
C10_Witness ==
  \E p \in Procs :
    /\ req[p].pc = "done"
    /\ req[p].op = "send_verification_email"
    /\ req[p].result.kind = "ok"
    /\ req[p].arg.user_id \in DOMAIN users
    /\ users[req[p].arg.user_id].email_verified

(* -------------------------------- C11 --------------------------------- *)

\* worker p's verify_email commits in this step the redemption of token i
RedemptionCommits(p, i) ==
  /\ req[p].pc = "v_commit"
  /\ req'[p].pc = "done"
  /\ req'[p].result # DatabaseError
  /\ req[p].token.id = i

(* C11: used_at of a token is written at most once, in every interleaving:
   no step removes a token; a used_at that is set is never cleared or
   changed; used_at goes from null to a timestamp only in the commit of a
   verify_email on that token, and that update is committed at most once; a
   token enters the store with used_at null. *)
C11_UsedAtWrittenOnce ==
  [][/\ \A i \in DOMAIN tokens :
          /\ i \in DOMAIN tokens'
          /\ tokens[i].used_at # Null => tokens'[i].used_at = tokens[i].used_at
          /\ tokens'[i].used_at # tokens[i].used_at
               => \E p \in Procs : RedemptionCommits(p, i)
          /\ usedWrites'[i] <= 1
     /\ \A i \in DOMAIN tokens' \ DOMAIN tokens : tokens'[i].used_at = Null]_vars

\* a used token was presented again and refused: its update was committed once
C11_Witness ==
  \E p \in Procs, t \in TokenStrings :
    /\ VerifyReturned(p, t)
    /\ req[p].result.kind = "TokenAlreadyUsed"
    /\ find_by_token(t).used_at # Null
    /\ usedWrites[find_by_token(t).id] = 1

(* -------------------------------- C12 --------------------------------- *)

\* worker p's login returns in this step
LoginReturns(p) ==
  /\ req[p].pc = "idle"
  /\ req'[p].pc = "done"
  /\ req'[p].op = "login"

(* C12: a login that fails authentication does not reveal whether the email
   is registered: when login(e, p) is refused (Unauthorized) in a store that
   holds an account with email e, in any verification state, its response
   (status and message) is the response the same call gets from the store
   that differs only in holding no account with email e. *)
C12_FailingLoginHidesRegistration ==
  [][\A p \in Procs :
       /\ LoginReturns(p)
       /\ req'[p].result.kind = "Unauthorized"
       /\ find_by_email(req'[p].arg.email) # NoUser
       => \A enc \in EncodeOutcomes :
            req'[p].response
              = into_response(login(NoUser, req'[p].arg.password, enc))]_vars

(* C12 as the code has it: a refused login tells an unknown email from a
   registered one only when the account is unverified. For an account with
   email e that is verified, the response to a refused login(e, p) is the
   response of the store without that account; for an unverified one the
   kind and the status are those of the store without it, and the message
   is "Email not verified". *)
C12_FailingLoginHidesVerifiedAccount ==
  [][\A p \in Procs :
       /\ LoginReturns(p)
       /\ req'[p].result.kind = "Unauthorized"
       /\ find_by_email(req'[p].arg.email) # NoUser
       => \A enc \in EncodeOutcomes :
            LET absent == login(NoUser, req'[p].arg.password, enc)
                account == find_by_email(req'[p].arg.email)
            IN /\ req'[p].result.kind = absent.kind
               /\ req'[p].response.status_code = into_response(absent).status_code
               /\ account.email_verified
                    => req'[p].response = into_response(absent)
               /\ ~account.email_verified
                    => req'[p].response.message = "Email not verified"]_vars

\* a login with the wrong password for a verified account was refused
C12_Witness ==
  \E p \in Procs :
    /\ req[p].pc = "done"
    /\ req[p].op = "login"
    /\ req[p].result.kind = "Unauthorized"
    /\ find_by_email(req[p].arg.email) # NoUser
    /\ find_by_email(req[p].arg.email).email_verified
    /\ find_by_email(req[p].arg.email).password # hash_password(req[p].arg.password)

(* -------------------------------- C13 --------------------------------- *)

\* login(email, password) may succeed in the present store
CanLogIn(email, password) ==
  /\ find_by_email(email) # NoUser
  /\ find_by_email(email).email_verified
  /\ hash_password(password) = find_by_email(email).password

(* C13: a login that returns without a failure of the store or of the
   encoder succeeds if and only if an account with that email exists, is
   verified, and hash_password(password) is its stored digest; a successful
   login carries claims with sub = the account's email, user_id = its id and
   exp = the time of issue + 24 hours, and returns the same id, email and
   display name. *)
C13_LoginSucceedsIff ==
  [][\A p \in Procs :
       LoginReturns(p) /\ req'[p].result.kind # "InternalServerError"
       => LET a == req'[p].arg
              r == req'[p].result
              account == find_by_email(a.email)
          IN /\ r.kind = "ok" <=> CanLogIn(a.email, a.password)
             /\ r.kind = "ok"
                  => /\ r.claims = [sub |-> account.email, user_id |-> account.id,
                                    exp |-> now + 24]
                     /\ r.user.id = account.id
                     /\ r.user.email = account.email
                     /\ r.user.display_name = account.display_name]_vars

\* an account was refused before its verification and, with the same
\* password, is logged in after it
C13_Witness ==
  \E p, q \in Procs :
    /\ req[p].pc = "done" /\ req[p].op = "login"
    /\ req[p].result = Err("Unauthorized", "Email not verified")
    /\ req[q].pc = "done" /\ req[q].op = "login"
    /\ req[q].result.kind = "ok"
    /\ req[q].arg = req[p].arg
    /\ CanLogIn(req[q].arg.email, req[q].arg.password)

(* -------------------------------- C14 --------------------------------- *)

\* worker p's verify_email commits and returns its session in this step
VerifySucceeds(p) ==
  /\ req[p].pc = "v_commit"
  /\ req'[p].pc = "done"
  /\ req'[p].result.kind = "ok"

(* C14: a successful verify_email(t) sets email_verified on the account that
   owns t and changes no other account and nothing else of the owner, sets
   used_at on token t and changes no other token, and returns a session whose
   user_id, sub (email) and display name are the owner's. *)
C14_VerifyMarksOwnerAndToken ==
  [][\A p \in Procs :
       VerifySucceeds(p)
       => LET t == find_by_token(req[p].arg.token)
              r == req'[p].result
          IN /\ t # NoToken
             /\ t.user_id \in DOMAIN users
             /\ users' = [users EXCEPT ![t.user_id].email_verified = TRUE]
             /\ DOMAIN tokens' = DOMAIN tokens
             /\ tokens'[t.id].used_at # Null
             /\ \A j \in DOMAIN tokens \ {t.id} : tokens'[j] = tokens[j]
             /\ [tokens'[t.id] EXCEPT !.used_at = Null] = t
             /\ r.claims.user_id = t.user_id
             /\ r.claims.sub = users[t.user_id].email
             /\ r.user.id = t.user_id
             /\ r.user.email = users[t.user_id].email
             /\ r.user.display_name = users[t.user_id].display_name]_vars

\* of two accounts one was verified by its token; the other account and its
\* token are as they were
C14_Witness ==
  \E p \in Procs, t \in TokenStrings :
    /\ VerifyReturned(p, t)
    /\ req[p].result.kind = "ok"
    /\ find_by_token(t).used_at # Null
    /\ users[find_by_token(t).user_id].email_verified
    /\ req[p].result.claims.user_id = find_by_token(t).user_id
    /\ \E i \in DOMAIN users : ~users[i].email_verified
    /\ \E j \in DOMAIN tokens : tokens[j].used_at = Null

(* -------------------------------- C15 --------------------------------- *)

\* worker p's call of the notifier returns in this step
NotifierReturns(p) ==
  /\ req[p].pc = "mail"
  /\ req'[p].pc = "done"
  /\ req'[p].result.mail # NoMail

\* the token row is in the store and verify_email would redeem it now
Redeemable(token) ==
  /\ token.id \in DOMAIN tokens
  /\ tokens[token.id] = token
  /\ token.user_id \in DOMAIN users
  /\ ~Expired(token, now)
  /\ ~AlreadyUsed(token)

(* C15: a failure of the notifier never changes the outcome of create_user
   or send_verification_email. The notifier is called with no transaction
   open, after the account and the new token are committed; whether the send
   is delivered or fails, the operation returns success, the stores are as
   they were, and the new token is still redeemable by its owner. *)
C15_NotifierFailureSwallowed ==
  [][\A p \in Procs :
       NotifierReturns(p)
       => /\ ~req[p].tx.active
          /\ Redeemable(req[p].token)
          /\ users[req[p].token.user_id] = req[p].user
          /\ req'[p].result.kind = "ok"
          /\ req'[p].response.status_code = StatusCodes.OK
          /\ req[p].op = "create_user" => req'[p].result.user = req[p].user
          /\ req'[p].result.mail.token = req[p].token.token
          /\ req'[p].result.mail.to = req[p].user.email
          /\ store' = store]_vars

\* a create_user whose verification mail failed has returned its account, and
\* the token that mail carried is redeemable
C15_Witness ==
  \E p \in Procs :
    /\ req[p].pc = "done"
    /\ req[p].op = "create_user"
    /\ req[p].result.mail.outcome = "failed"
    /\ req[p].result.kind = "ok"
    /\ find_by_email(req[p].arg.email) = req[p].result.user
    /\ Redeemable(find_by_token(req[p].result.mail.token))
    /\ find_by_token(req[p].result.mail.token).user_id = req[p].result.user.id

(* -------------------------------- C16 --------------------------------- *)

\* no account has the email, or the account that has it is verified
NothingToVerify(email) ==
  \/ find_by_email(email) = NoUser
  \/ find_by_email(email).email_verified

(* C16: send_verification_email_by_email(email), when its lookup finds no
   account with the email or finds the account verified, returns success
   with the stores unchanged and no notification sent; barring a failure of
   the lookup that is the only case in which the lookup ends the call. It
   goes on to send_verification_email only for an account its lookup found
   existing and unverified, and a step of the operation that adds a token
   adds one unused token, owned by that account. *)
C16_ByEmailSilentNoOp ==
  [][\A p \in Procs :
       req[p].op = "send_verification_email_by_email" /\ req'[p] # req[p]
       => LET email == req[p].arg.email
              account == find_by_email(email)
          IN /\ req[p].pc = "e_find" /\ NothingToVerify(email)
                  => /\ req'[p].pc \in {"done", "idle"}
                     /\ store' = store
             /\ req[p].pc = "e_find" /\ req'[p].pc = "done"
                /\ req'[p].result # DatabaseError
                  => /\ NothingToVerify(email)
                     /\ req'[p].result = Ok(NoUser)
                     /\ req'[p].result.mail = NoMail
                     /\ req'[p].response.status_code = StatusCodes.OK
             /\ req[p].pc = "e_find" /\ req'[p].pc = "s_token"
                  => /\ account # NoUser
                     /\ ~account.email_verified
                     /\ req'[p].arg.user_id = account.id
             /\ tokens' # tokens
                  => /\ account # NoUser
                     /\ account.id = req[p].arg.user_id
                     /\ users' = users
                     /\ \E i \in DOMAIN tokens' \ DOMAIN tokens :
                          /\ tokens' = Overlay((i :> tokens'[i]), tokens)
                          /\ tokens'[i].user_id = account.id
                          /\ tokens'[i].used_at = Null]_vars

\* the call has returned success, with nothing sent, for the email of a
\* verified account
C16_Witness ==
  \E p \in Procs :
    /\ req[p].pc = "done"
    /\ req[p].op = "send_verification_email_by_email"
    /\ req[p].result = Ok(NoUser)
    /\ find_by_email(req[p].arg.email) # NoUser
    /\ find_by_email(req[p].arg.email).email_verified

(* -------------------------------- C17 --------------------------------- *)

(* C17: send_verification_email(id) for an id that no account has fails with
   UserNotFound: the insert of its token does not end the call, its lookup of
   the absent account ends it, and unless the store call itself fails the
   result is UserNotFound (404) with no notification sent. *)
C17_UnknownAccountNotFound ==
  [][\A p \in Procs :
       /\ req[p].op = "send_verification_email"
       /\ req'[p] # req[p]
       /\ find_by_id(req[p].arg.user_id) = NoUser
       => /\ req[p].pc = "s_token" /\ tokenSeq' # tokenSeq
               => req'[p].pc = "s_find"
          /\ req[p].pc = "s_find"
               => /\ req'[p].pc \in {"done", "idle"}
                  /\ req'[p].pc = "done" /\ req'[p].result # DatabaseError
                       => /\ req'[p].result = Err("UserNotFound", "User not found")
                          /\ req'[p].response.status_code = StatusCodes.NOT_FOUND
          /\ req'[p].result.kind # "ok"
          /\ req'[p].result.mail = NoMail]_vars

\* the call has returned UserNotFound for an id that no account has
C17_Witness ==
  \E p \in Procs :
    /\ req[p].pc = "done"
    /\ req[p].op = "send_verification_email"
    /\ req[p].result.kind = "UserNotFound"
    /\ find_by_id(req[p].arg.user_id) = NoUser

(* -------------------------------- C18 --------------------------------- *)

\* no two rows of us have the same email
EmailsUnique(us) ==
  \A i, j \in DOMAIN us : us[i].email = us[j].email => i = j

(* C18: no two accounts ever have the same email. A create_user that has
   passed validation and whose email is registered when its insert runs, as
   it is for the loser of two overlapping calls with one email, ends there:
   it returns InternalServerError (500), and neither an account nor a token
   of it reaches the stores; a create_user is past its insert only while no
   committed account has its email. *)
C18_EmailUnique ==
  [][/\ EmailsUnique(users')
     /\ \A p \in Procs :
          req[p].op = "create_user" /\ req'[p] # req[p]
          => /\ req[p].pc = "c_user" /\ find_by_email(req[p].arg.email) # NoUser
                  => /\ req'[p].pc \in {"done", "idle"}
                     /\ req'[p].pc = "done"
                          => /\ req'[p].result = DatabaseError
                             /\ req'[p].response.status_code
                                  = StatusCodes.INTERNAL_SERVER_ERROR
                     /\ users' = users
                     /\ tokens' = tokens
             /\ req'[p].pc \in {"c_token", "c_commit"}
                  => find_by_email(req[p].arg.email) = NoUser]_vars

\* of two create_user calls with one email one has returned the account and
\* the other InternalServerError, and one account has the email
C18_Witness ==
  \E p, q \in Procs :
    /\ req[p].pc = "done" /\ req[p].op = "create_user"
    /\ req[q].pc = "done" /\ req[q].op = "create_user"
    /\ req[p].arg.email = req[q].arg.email
    /\ req[p].result.kind = "ok"
    /\ req[q].result = DatabaseError
    /\ Cardinality({ i \in DOMAIN users : users[i].email = req[p].arg.email }) = 1
    /\ users[req[p].result.user.id].email = req[p].arg.email
    /\ userSeq > req[p].result.user.id + 1

(* -------------------------------- C19 --------------------------------- *)

\* worker p's login or get_user_by_id returns in this step
ReadReturns(p) ==
  /\ req[p].pc = "idle"
  /\ req'[p].pc = "done"
  /\ req'[p].op \in {"login", "get_user_by_id"}

\* the account a read with arguments a is about
AccountRead(operation, a) ==
  IF operation = "login" THEN find_by_email(a.email) ELSE find_by_id(a.user_id)

(* C19: login, in every outcome, and get_user_by_id leave the account store
   and the token store unchanged; the account data they return is the row of
   the store; and a call repeated with the same arguments while the account
   is as the earlier call returned it returns the same result (a failure of
   the store or of the encoder aside). *)
C19_ReadsLeaveStores ==
  [][\A q \in Procs :
       ReadReturns(q)
       => LET operation == req'[q].op
              a == req'[q].arg
              r == req'[q].result
          IN /\ store' = store
             /\ r.kind = "ok" => r.user = AccountRead(operation, a)
             /\ operation = "get_user_by_id" /\ r.kind = "UserNotFound"
                  => AccountRead(operation, a) = NoUser
             /\ \A p \in Procs \ {q} :
                  /\ req[p].pc = "done" /\ req[p].op = operation /\ req[p].arg = a
                  /\ req[p].result.kind # "InternalServerError"
                  /\ r.kind # "InternalServerError"
                  /\ req[p].result.user = AccountRead(operation, a)
                     \/ /\ operation = "login"
                        /\ req[p].result
                             = login(AccountRead(operation, a), a.password, "token")
                  => r = req[p].result]_vars

\* a login with the wrong password was refused and a get_user_by_id of the
\* same account returns the account as the store has it
C19_Witness ==
  \E p, q \in Procs :
    /\ req[p].pc = "done" /\ req[p].op = "login"
    /\ req[p].result = Err("Unauthorized", "Invalid credentials")
    /\ find_by_email(req[p].arg.email) # NoUser
    /\ find_by_email(req[p].arg.email).email_verified
    /\ req[q].pc = "done" /\ req[q].op = "get_user_by_id"
    /\ req[q].result = Ok(find_by_email(req[p].arg.email))

(* -------------------------------- C20 --------------------------------- *)

\* worker p's handler has answered an error of the service
Answered(p) == req[p].pc = "done" /\ req[p].result.kind \in ErrorKinds

(* C20: the mapping from the seven error kinds to status codes is
   one-to-one: two answered errors have the same status exactly if they have
   the same kind. *)
C20_StatusPerKindOneToOne ==
  \A p, q \in Procs :
    Answered(p) /\ Answered(q)
    => (req[p].response.status_code = req[q].response.status_code
          <=> req[p].result.kind = req[q].result.kind)

(* C20 as the code has it: each of the seven error kinds maps to one status,
   whatever the message, and the response carries the message; two different
   kinds share a status only if they are ValidationError and InvalidToken,
   which both map to 400. *)
C20_StatusPerKind ==
  \A p, q \in Procs :
    Answered(p) /\ Answered(q)
    => /\ req[p].response.message = req[p].result.msg
       /\ req[p].response.status_code \in {400, 401, 404, 409, 410, 500}
       /\ req[p].result.kind = req[q].result.kind
            => req[p].response.status_code = req[q].response.status_code
       /\ (/\ req[p].response.status_code = req[q].response.status_code
           /\ req[p].result.kind # req[q].result.kind)
            => /\ {req[p].result.kind, req[q].result.kind}
                    = {"ValidationError", "InvalidToken"}
               /\ req[p].response.status_code = 400

\* a ValidationError and an InvalidToken have both been answered with 400
C20_Witness ==
  \E p, q \in Procs :
    /\ Answered(p) /\ Answered(q)
    /\ req[p].result.kind = "ValidationError"
    /\ req[q].result.kind = "InvalidToken"
    /\ req[p].response.status_code = 400
    /\ req[q].response.status_code = 400

(* -------------------------------- C24 --------------------------------- *)

\* the payload breaks a rule of CreateUserRequest: the email has no email
\* shape, the display name is empty, or the password is shorter than 8 or has
\* no letter or no digit
BadPayload(a) ==
  \/ a.email = EmailBad
  \/ a.display_name = ""
  \/ Len(a.password) < 8
  \/ \A i \in 1..Len(a.password) : a.password[i] \notin Letters
  \/ \A i \in 1..Len(a.password) : a.password[i] \notin Digits

\* worker p takes a create_user request in this step
CreateUserCalled(p) ==
  /\ req[p].pc = "idle"
  /\ req'[p].op = "create_user"

(* C24: create_user validates the payload before it touches a store. A
   payload that breaks a rule returns ValidationError (400) in the step that
   takes it: no transaction is opened, no id is drawn, neither store changes
   and no notification is sent; a payload that breaks none goes on to the
   store. *)
C24_InvalidPayloadRejected ==
  [][\A p \in Procs :
       CreateUserCalled(p)
       => IF BadPayload(req'[p].arg)
          THEN /\ req'[p].pc = "done"
               /\ req'[p].result = Err("ValidationError", "Validation failed")
               /\ req'[p].response.status_code = 400
               /\ req'[p].result.mail = NoMail
               /\ ~req'[p].tx.active
               /\ store' = store
          ELSE /\ req'[p].pc = "c_user"
               /\ req'[p].tx.active]_vars

\* a payload whose password has no digit was refused and the stores are empty
C24_Witness ==
  \E p \in Procs :
    /\ req[p].pc = "done"
    /\ req[p].op = "create_user"
    /\ req[p].result.kind = "ValidationError"
    /\ req[p].arg.password = PwNoDigit
    /\ users = NoRows
    /\ tokens = NoRows
    /\ userSeq = 1

(* -------------------------------- C28 --------------------------------- *)

\* the result of a verify_email whose session could not be encoded
EncodeFailed == Err("InternalServerError", "JWT encoding failed")

\* worker p's verify_email has returned EncodeFailed
VerifyEncodeFailed(p) ==
  /\ req[p].pc = "done"
  /\ req[p].op = "verify_email"
  /\ req[p].result = EncodeFailed

(* C28: verify_email commits before it issues the session. When encoding the
   session fails, the call returns InternalServerError (500) without a
   session, and the commit stands: the owner is verified and the token is
   used, and they stay so; a verify_email with the same token string made
   after that goes no further than its lookup and returns TokenAlreadyUsed
   without a session. *)
C28_CommitBeforeSession ==
  [][\A p \in Procs :
       /\ req[p].pc = "v_commit" /\ req'[p].pc = "done" /\ req'[p].result = EncodeFailed
            => /\ users'[req[p].token.user_id].email_verified
               /\ tokens'[req[p].token.id].used_at # Null
               /\ ~HasSession(req'[p].result)
               /\ req'[p].response.status_code = 500
       /\ VerifyEncodeFailed(p)
            => /\ find_by_token(req[p].arg.token).used_at # Null
               /\ users[find_by_token(req[p].arg.token).user_id].email_verified
               /\ \A q \in Procs \ {p} :
                    /\ req[q].pc = "v_find"
                    /\ req[q].arg.token = req[p].arg.token
                    /\ req'[q] # req[q]
                    => /\ req'[q].pc \in {"done", "idle"}
                       /\ ~HasSession(req'[q].result)
                       /\ req'[q].pc = "done" /\ req'[q].result # DatabaseError
                            => /\ req'[q].result.kind = "TokenAlreadyUsed"
                               /\ req'[q].response.status_code = 409
                       /\ store' = store]_vars

\* a redemption whose session could not be encoded was retried with the same
\* token string and refused as already used
C28_Witness ==
  \E p, q \in Procs :
    /\ VerifyEncodeFailed(p)
    /\ VerifyReturned(q, req[p].arg.token)
    /\ req[q].result.kind = "TokenAlreadyUsed"
    /\ find_by_token(req[p].arg.token).used_at # Null
    /\ users[find_by_token(req[p].arg.token).user_id].email_verified

(* -------------------------------- C29 --------------------------------- *)

\* worker p's verify_email does its lookup in this step and finds a token
\* that is unused and not expired
LookupOfLive(p) ==
  /\ req[p].pc = "v_find"
  /\ req'[p] # req[p]
  /\ find_by_token(req[p].arg.token) # NoToken
  /\ ~AlreadyUsed(find_by_token(req[p].arg.token))
  /\ ~Expired(find_by_token(req[p].arg.token), now)

(* C29: the tokens of an account are independent. A step that adds a token
   changes no token that was there; a step that sets used_at of a token is
   the commit of a verify_email on that token and changes no other token;
   expires_at never changes. So a live token is not refused at its lookup
   whatever happened to the other tokens of its account, and its redemption
   on an account that is already verified succeeds: it leaves the accounts
   as they are, marks that token only and issues a session of the owner. *)
C29_TokensIndependent ==
  [][/\ \A i \in DOMAIN tokens :
          /\ tokens'[i].expires_at = tokens[i].expires_at
          /\ DOMAIN tokens' # DOMAIN tokens => tokens'[i] = tokens[i]
          /\ tokens'[i] # tokens[i]
               => \E p \in Procs :
                    /\ req[p].pc = "v_commit"
                    /\ req[p].token.id = i
                    /\ \A j \in DOMAIN tokens \ {i} : tokens'[j] = tokens[j]
     /\ \A p \in Procs :
          /\ LookupOfLive(p)
               => \/ req'[p].pc \in {"v_user", "idle"}
                  \/ req'[p].pc = "done" /\ req'[p].result = DatabaseError
          /\ VerifySucceeds(p) /\ users[req[p].token.user_id].email_verified
               => /\ users' = users
                  /\ tokens'[req[p].token.id].used_at # Null
                  /\ HasSession(req'[p].result)
                  /\ req'[p].result.claims.user_id = req[p].token.user_id]_vars

\* two tokens of one account have both been redeemed, each with a session
C29_Witness ==
  \E p, q \in Procs :
    /\ req[p].pc = "done" /\ req[p].op = "verify_email" /\ req[p].result.kind = "ok"
    /\ req[q].pc = "done" /\ req[q].op = "verify_email" /\ req[q].result.kind = "ok"
    /\ req[p].arg.token # req[q].arg.token
    /\ req[p].result.claims = req[q].result.claims
    /\ find_by_token(req[p].arg.token).user_id = find_by_token(req[q].arg.token).user_id
    /\ \A i \in DOMAIN tokens : tokens[i].used_at # Null /\ usedWrites[i] = 1

(* -------------------------------- C30 --------------------------------- *)

\* worker p's send_verification_email returns an error in this step
SendReturnsError(p) ==
  /\ req[p].op = "send_verification_email"
  /\ req[p].pc # "done"
  /\ req'[p].pc = "done"
  /\ req'[p].result.kind # "ok"

(* C30: a send_verification_email that returns an error leaves no token
   behind: when it returns the error the call has inserted no token and the
   token store is as it was; and every token's user_id is the id of an
   account of the store. *)
C30_NoTokenLeftBehind ==
  [][/\ \A p \in Procs :
          SendReturnsError(p)
          => /\ req[p].token = NoToken
             /\ \A i \in DOMAIN tokens' : tokens'[i].token # req[p].token.token
             /\ tokens' = tokens
     /\ \A i \in DOMAIN tokens' : tokens'[i].user_id \in DOMAIN users']_vars

(* -------------------------------- C21 --------------------------------- *)

\* worker p has decoded the token of its request
Decoded(p) == req[p].pc = "done" /\ req[p].op = "decode_jwt"

(* C21: decode_jwt accepts a token exactly if it is well formed, its
   signature verifies under the current JWT_SECRET and the second of the
   call is not later than its exp; so a session issued at hour T, whose exp
   is T + 24 hours, is rejected at every second after that. *)
C21_DecodeRejectsAfterExp ==
  \A p \in Procs :
    Decoded(p)
    => LET token == req[p].arg.authorization.jwt
       IN /\ req[p].result.kind = "ok"
               <=> /\ token.form = "jwt"
                   /\ token.key = "JWT_SECRET"
                   /\ req[p].arg.at <= token.claims.exp
          /\ req[p].result.kind = "ok" => req[p].result.claims = token.claims
          /\ \A t \in IssueHours :
               /\ token.claims.exp = (t + 24) * 3600
               /\ req[p].arg.at > (t + 24) * 3600
               => req[p].result.kind # "ok"

(* ------------------------------- C26 ---------------------------------- *)

\* p has taken the key from a URL
Extracted(p) ==
  /\ req[p].pc = "done"
  /\ req[p].result.kind = "ok"
  /\ req[p].op \in {"upload_file", "extract_key_from_url"}

\* C26: under one storage configuration, extract_key_from_url gives back the
\* key of every URL upload_file built (Some(key)), and gives None for every
\* URL that does not start with the configured endpoint and bucket, which is
\* the public endpoint if set, else the endpoint, else the AWS host of the
\* bucket
C26_ExtractInvertsUpload ==
  \A p \in Procs :
    Extracted(p) =>
      LET storage == req[p].arg.storage
          url == req[p].arg.url
          configured ==
            IF storage.public_endpoint.some
            THEN storage.public_endpoint.value \o Slash \o storage.bucket \o Slash
            ELSE IF storage.endpoint.some
            THEN storage.endpoint.value \o Slash \o storage.bucket \o Slash
            ELSE Https \o storage.bucket \o AwsHost \o Slash
      IN /\ req[p].op = "upload_file" => req[p].result.key = Some(req[p].arg.key)
         /\ ~ starts_with(url, configured) => req[p].result.key = None

\* with a public endpoint and an endpoint configured, one worker has taken a
\* key with a slash back from the URL it was uploaded to, and the other has
\* found no key in a URL of another bucket
C26_Witness ==
  /\ Extracted("p1")
  /\ req["p1"].op = "upload_file"
  /\ req["p1"].arg.storage.public_endpoint.some
  /\ req["p1"].arg.storage.endpoint.some
  /\ req["p1"].arg.key = <<"k", "/">>
  /\ req["p1"].result.key = Some(<<"k", "/">>)
  /\ Extracted("p2")
  /\ req["p2"].op = "extract_key_from_url"
  /\ req["p2"].result.key = None

(* ------------------------------- C25 ---------------------------------- *)

\* p has answered get_requests
Listed(p) ==
  /\ req[p].pc = "done"
  /\ req[p].op = "get_requests"

\* C25: get_requests(lat, lng) returns every stored request exactly once;
\* when both coordinates are given every returned request has a distance and
\* the list is non-decreasing by distance; when either is missing every
\* distance is None and the list is ordered by created_at descending
C25_EveryRequestListedInOrder ==
  \A p \in Procs :
    Listed(p) =>
      LET l == req[p].result.requests
      IN /\ req[p].result.kind = "ok"
         /\ Len(l) = Cardinality(DOMAIN requests)
         /\ \A id \in DOMAIN requests :
              \E i \in 1..Len(l) :
                /\ l[i].id = id
                /\ l[i].lat = requests[id].lat
                /\ l[i].created_at = requests[id].created_at
         /\ IF req[p].arg.lat.some /\ req[p].arg.lng.some
            THEN /\ \A i \in 1..Len(l) : l[i].distance.some
                 /\ \A i, j \in 1..Len(l) :
                      i < j => l[i].distance.value <= l[j].distance.value
            ELSE /\ \A i \in 1..Len(l) : l[i].distance = None
                 /\ \A i, j \in 1..Len(l) :
                      i < j => l[i].created_at >= l[j].created_at

(* ------------------------------- C23 ---------------------------------- *)

\* p's delete_picture returns in this step
DeleteReturns(p) ==
  /\ req[p].op = "delete_picture"
  /\ req[p].pc \notin {"idle", "done"}
  /\ req'[p].pc = "done"

\* p's delete_picture takes a step
DeleteSteps(p) ==
  /\ req[p].op = "delete_picture"
  /\ req'[p] # req[p]

\* p's delete_picture gets the answer of its lookup (it is not cancelled)
DeleteLooksUp(p) ==
  /\ DeleteSteps(p)
  /\ req[p].pc = "d_find"
  /\ req'[p].pc # "idle"

\* the picture p's delete_picture is for, as the table has it
Asked(p) == picture_find_by_id(req[p].arg.picture_id)

\* C23: delete_picture(picture_id, user_id) of a picture of another account
\* fails with Forbidden (403) and leaves the row and the stored object as
\* they are; of a picture that does not exist it fails with NotFound (404)
\* and changes nothing; by the owner it succeeds, barring a failure of the
\* store or of the storage, and the row no longer exists afterwards
C23_DeleteOnlyByOwner ==
  [][\A p \in Procs :
       /\ (DeleteLooksUp(p) /\ Asked(p) = NoPicture) =>
            /\ req'[p].pc = "done"
            /\ \/ /\ req'[p].result.kind = "NotFound"
                  /\ req'[p].response.status_code = 404
               \/ req'[p].result = DatabaseError
            /\ UNCHANGED catalog
       /\ (/\ DeleteLooksUp(p)
           /\ Asked(p) # NoPicture
           /\ Asked(p).user_id # req[p].arg.user_id) =>
            /\ req'[p].pc = "done"
            /\ \/ /\ req'[p].result.kind = "Forbidden"
                  /\ req'[p].response.status_code = 403
               \/ req'[p].result = DatabaseError
            /\ UNCHANGED catalog
       /\ (DeleteSteps(p) /\ (pictures' # pictures \/ objects' # objects)) =>
            /\ req[p].picture # NoPicture
            /\ req[p].picture.id = req[p].arg.picture_id
            /\ req[p].picture.user_id = req[p].arg.user_id
       /\ (DeleteReturns(p) /\ req[p].picture # NoPicture) =>
            /\ req'[p].result.kind \in {"ok", "InternalServerError"}
            /\ req'[p].result.kind = "ok" =>
                 /\ req'[p].response.status_code = 200
                 /\ req[p].arg.picture_id \notin DOMAIN pictures'
    ]_vars

\* account 2 was refused the picture of account 1, which is still there with
\* its object, and account 1 has deleted its other picture
C23_Witness ==
  /\ req["p1"].pc = "done"
  /\ req["p1"].op = "delete_picture"
  /\ req["p1"].result.kind = "Forbidden"
  /\ req["p1"].arg.user_id = 2
  /\ req["p1"].arg.picture_id \in DOMAIN pictures
  /\ pictures[req["p1"].arg.picture_id].user_id = 1
  /\ extract_key_from_url(TheStorage, pictures[req["p1"].arg.picture_id].image_url).some
  /\ extract_key_from_url(TheStorage, pictures[req["p1"].arg.picture_id].image_url).value
       \in objects
  /\ req["p2"].pc = "done"
  /\ req["p2"].op = "delete_picture"
  /\ req["p2"].result.kind = "ok"
  /\ req["p2"].arg.user_id = 1
  /\ req["p2"].arg.key # <<>>
  /\ req["p2"].arg.picture_id \notin DOMAIN pictures
  /\ pictureSeq > req["p2"].arg.picture_id

(* ------------------------------- C22 ---------------------------------- *)

\* the handlers of the routes that ask for a session
AuthenticatedRoutes ==
  {"get_current_user_handler", "resend_verification_handler",
   "create_picture_handler", "delete_picture_handler", "create_request_handler"}

\* the request has no Authorization header, one that does not start with
\* "Bearer ", or one whose token decode_jwt rejects now
Unauthenticated(header) ==
  \/ header.scheme = "none"
  \/ header.scheme # "Bearer"
  \/ decode_jwt(header.jwt, timestamp(now)).kind # "ok"

\* C22: a request to an authenticated route (get current user, resend
\* verification, create picture, delete picture, create request) without an
\* Authorization header, with one that does not start with "Bearer ", or with
\* a token decode_jwt rejects, is answered 401 whatever its path and body, and
\* changes no account, token, picture, request or stored object
C22_NoSessionIs401 ==
  [][\A p \in Procs :
       (/\ req[p].pc = "idle"
        /\ req'[p].pc # "idle"
        /\ req'[p].op \in AuthenticatedRoutes
        /\ Unauthenticated(req'[p].arg.authorization)) =>
         /\ req'[p].pc = "done"
         /\ req'[p].response.status_code = 401
         /\ UNCHANGED << store, catalog >>
    ]_vars

(* ------------------------------- C27 ---------------------------------- *)

\* account id has a token that verify_email would still redeem
HasLiveToken(id) ==
  \E t \in DOMAIN tokens :
    /\ tokens[t].user_id = id
    /\ tokens[t].used_at = Null
    /\ ~Expired(tokens[t], now)

\* a client holds a session of account id that auth_middleware accepts
HoldsSession(id) ==
  \E j \in sessions :
    /\ j.claims.user_id = id
    /\ auth_middleware([scheme |-> "Bearer", jwt |-> j], timestamp(now)).kind = "ok"

\* account id is unverified, none of its tokens can be redeemed, and no
\* session of it is there to ask for another one
LockedOut(id) ==
  /\ id \in DOMAIN users
  /\ ~users[id].email_verified
  /\ ~HasLiveToken(id)
  /\ ~HoldsSession(id)

\* C27: in every reachable state every Unverified account can still become
\* Verified through the routes (create account, login, verify email by
\* token, resend verification with a session, get current account); in
\* particular, once all its tokens have expired, a new live token can still
\* be produced and redeemed. So no unverified account is ever without both a
\* token to redeem and a session to ask for one with
C27_UnverifiedCanStillVerify ==
  \A id \in 1..MaxUsers : ~LockedOut(id)

\* a locked out account stays locked out, whatever the clients do
LockedOutForGood ==
  [][\A id \in 1..MaxUsers : LockedOut(id) => LockedOut(id)']_vars

====
